---------------------------- MODULE Spec2Model ----------------------------
(***************************************************************************)
(* Model of the bulk modification engine of bulk-editor-app: the filter    *)
(* evaluators, the value transformers, the change planner of the wizard,   *)
(* the execute / revert actions against the catalog, and the monthly       *)
(* quota of the ShopPlan row.                                              *)
(*                                                                         *)
(* JavaScript strings are sequences of one-character strings.  JavaScript  *)
(* numbers are records [t, n]: t = "num" with n the value in units of      *)
(* 1/Scale, t = "nan" for NaN, t = "null" for a missing (null/undefined)   *)
(* number.  A missing string is Null.                                      *)
(***************************************************************************)
EXTENDS Integers, Sequences, FiniteSets, TLC

VARIABLES
  fProduct, fRule, fDone, fBulk, fHook,          \* filter evaluation
  cCur, cMod, cDone, cBulk, cHook,               \* value transformer
  catalog, products, mods, step, changes,        \* wizard planner
  built, lastChanges, fetcher, round,
  xPre, xChanges, xPhase, xRun, xRev, xFaults,   \* execute / revert
  shopPlan, now, reqs, applied, catalogWrites, bulkEdits, priceHistory,
  rejected,                                      \* monthly quota
  dbPriceHistory, dbBulkEdit,                    \* audit tables
  aCat, aLog, aLast, aOps,                       \* catalog writes of every entry point
  mProduct, mRules, mDone, mPass,                \* rule sets
  dbShopPlan, dbRules, dbScheduled, dbSaved,     \* the app's tables
  hookWrites, sNow, gResp, charges, dReq, dOps,
  qCat, qRule, qEvents, qRuns,                   \* products/update events
  wStep, wRules, wSelected, wMods                \* wizard selection

filterVars == <<fProduct, fRule, fDone, fBulk, fHook>>
calcVars   == <<cCur, cMod, cDone, cBulk, cHook>>
planVars   == <<catalog, products, mods, step, changes, built, lastChanges, fetcher,
                round>>
execVars   == <<xPre, xChanges, xPhase, xRun, xRev, xFaults>>
quotaVars  == <<shopPlan, now, reqs, applied, catalogWrites, bulkEdits,
                priceHistory, rejected>>
auditVars  == <<dbPriceHistory, dbBulkEdit>>
trailVars  == <<aCat, aLog, aLast, aOps>>
matchVars  == <<mProduct, mRules, mDone, mPass>>
dbVars     == <<dbShopPlan, dbRules, dbScheduled, dbSaved, hookWrites, sNow, gResp,
                charges, dReq, dOps>>
chainVars  == <<qCat, qRule, qEvents, qRuns>>
wizVars    == <<wStep, wRules, wSelected, wMods>>
vars == <<filterVars, calcVars, planVars, execVars, quotaVars, auditVars, trailVars,
          matchVars, dbVars, chainVars, wizVars>>

---------------------------------------------------------------------------
(* JavaScript values *)

Scale == 10000

Null == <<"<null>">>
Num(n) == [t |-> "num", n |-> n]
NaN == [t |-> "nan", n |-> 0]
NullNum == [t |-> "null", n |-> 0]

\* x || ""  for a string or null
OrEmpty(x) == IF x = Null THEN <<>> ELSE x
\* truthiness of a string or null
Truthy(x) == x # Null /\ x # <<>>

DigitVal ==
  [c \in {"0", "1", "2", "3", "4", "5", "6", "7", "8", "9"} |->
     CASE c = "0" -> 0 [] c = "1" -> 1 [] c = "2" -> 2 [] c = "3" -> 3
       [] c = "4" -> 4 [] c = "5" -> 5 [] c = "6" -> 6 [] c = "7" -> 7
       [] c = "8" -> 8 [] c = "9" -> 9]
DigitChar == <<"0", "1", "2", "3", "4", "5", "6", "7", "8", "9">>
IsDigit(c) == c \in DOMAIN DigitVal

\* length of the run of digits of s that starts at index i
RECURSIVE DigitsLen(_, _)
DigitsLen(s, i) ==
  IF i <= Len(s) /\ IsDigit(s[i]) THEN 1 + DigitsLen(s, i + 1) ELSE 0

\* value of the n digits of s that start at index i
RECURSIVE DigitsVal(_, _, _)
DigitsVal(s, i, n) ==
  IF n = 0 THEN 0 ELSE DigitsVal(s, i, n - 1) * 10 + DigitVal[s[i + n - 1]]

RECURSIVE Pow10(_)
Pow10(k) == IF k = 0 THEN 1 ELSE 10 * Pow10(k - 1)

RECURSIVE SkipSpaces(_, _)
SkipSpaces(s, i) == IF i <= Len(s) /\ s[i] = " " THEN SkipSpaces(s, i + 1) ELSE i

\* parseFloat(s): leading blanks, a sign, digits, "." and digits; NaN when no
\* digit is found.  Fraction digits beyond the model's resolution are dropped.
ParseFloat(s) ==
  LET a == SkipSpaces(s, 1)
      neg == a <= Len(s) /\ s[a] = "-"
      b == IF a <= Len(s) /\ s[a] \in {"-", "+"} THEN a + 1 ELSE a
      n == DigitsLen(s, b)
      dot == b + n <= Len(s) /\ s[b + n] = "."
      m == IF dot THEN DigitsLen(s, b + n + 1) ELSE 0
      k == IF m > 4 THEN 4 ELSE m
      mag == DigitsVal(s, b, n) * Scale
             + DigitsVal(s, b + n + 1, k) * Pow10(4 - k)
  IN IF n = 0 /\ m = 0 THEN NaN
     ELSE Num(IF neg THEN 0 - mag ELSE mag)

RECURSIVE NatToChars(_)
NatToChars(n) ==
  IF n < 10 THEN <<DigitChar[n + 1]>>
  ELSE NatToChars(n \div 10) \o <<DigitChar[(n % 10) + 1]>>

\* the k digits of n, zero padded on the left
RECURSIVE PadDigits(_, _)
PadDigits(n, k) ==
  IF k = 0 THEN <<>> ELSE PadDigits(n \div 10, k - 1) \o <<DigitChar[(n % 10) + 1]>>

RECURSIVE StripZeros(_)
StripZeros(s) ==
  IF s # <<>> /\ s[Len(s)] = "0" THEN StripZeros(SubSeq(s, 1, Len(s) - 1)) ELSE s

\* String(x) of a number: the shortest decimal form
NumToString(x) ==
  IF x.t = "nan" THEN <<"N", "a", "N">>
  ELSE LET mag == IF x.n < 0 THEN 0 - x.n ELSE x.n
           frac == StripZeros(PadDigits(mag % Scale, 4))
       IN (IF x.n < 0 THEN <<"-">> ELSE <<>>)
          \o NatToChars(mag \div Scale)
          \o (IF frac = <<>> THEN <<>> ELSE <<".">> \o frac)

\* x.toFixed(2) for x >= 0: rounded to the nearest cent.  A decimal tie
\* (18.525) is rounded up here; in binary floating point the product may lie
\* just below the tie and print one cent lower.  Both transformers share the
\* arithmetic, so the difference does not separate them.
ToFixed2(x) ==
  LET cents == (x.n + (Scale \div 200)) \div (Scale \div 100)
  IN NatToChars(cents \div 100) \o <<".">> \o PadDigits(cents % 100, 2)

\* IEEE comparisons: every relational comparison with NaN is false, !== is true
NumEq(a, b) == a.t = "num" /\ b.t = "num" /\ a.n = b.n
NumNe(a, b) == ~NumEq(a, b)
NumGt(a, b) == a.t = "num" /\ b.t = "num" /\ a.n > b.n
NumLt(a, b) == a.t = "num" /\ b.t = "num" /\ a.n < b.n
\* a comparison that NaN passes
NumGeLoose(a, b) == ~NumLt(a, b)
NumGe(a, b) == a.t = "num" /\ b.t = "num" /\ a.n >= b.n
NumLe(a, b) == a.t = "num" /\ b.t = "num" /\ a.n <= b.n

LowerChar(c) ==
  CASE c = "A" -> "a" [] c = "B" -> "b" [] c = "S" -> "s" [] c = "X" -> "x"
    [] OTHER -> c
ToLower(s) == [i \in 1..Len(s) |-> LowerChar(s[i])]

\* s.includes(t), s.startsWith(t), s.endsWith(t)
StartsWith(s, t) == Len(t) <= Len(s) /\ SubSeq(s, 1, Len(t)) = t
EndsWith(s, t) == Len(t) <= Len(s) /\ SubSeq(s, Len(s) - Len(t) + 1, Len(s)) = t
Includes(s, t) ==
  \E i \in 1..(Len(s) + 1) : i + Len(t) - 1 <= Len(s) /\ SubSeq(s, i, i + Len(t) - 1) = t

RECURSIVE Concat(_)
Concat(ss) == IF ss = <<>> THEN <<>> ELSE Head(ss) \o Concat(Tail(ss))

\* parts.join(sep)
RECURSIVE Join(_, _)
Join(parts, sep) ==
  IF parts = <<>> THEN <<>>
  ELSE IF Len(parts) = 1 THEN parts[1]
  ELSE parts[1] \o sep \o Join(Tail(parts), sep)

\* s.split(sep) for a non-empty separator
RECURSIVE SplitFrom(_, _, _)
SplitFrom(s, sep, acc) ==
  IF s = <<>> THEN <<acc>>
  ELSE IF StartsWith(s, sep)
       THEN <<acc>> \o SplitFrom(SubSeq(s, Len(sep) + 1, Len(s)), sep, <<>>)
       ELSE SplitFrom(Tail(s), sep, Append(acc, Head(s)))
Split(s, sep) ==
  IF sep = <<>> THEN [i \in 1..Len(s) |-> <<s[i]>>] ELSE SplitFrom(s, sep, <<>>)

RECURSIVE TrimLeft(_)
TrimLeft(s) == IF s # <<>> /\ Head(s) = " " THEN TrimLeft(Tail(s)) ELSE s
RECURSIVE TrimRight(_)
TrimRight(s) ==
  IF s # <<>> /\ s[Len(s)] = " " THEN TrimRight(SubSeq(s, 1, Len(s) - 1)) ELSE s
Trim(s) == TrimRight(TrimLeft(s))

RECURSIVE FilterNonEmpty(_)
FilterNonEmpty(ss) ==
  IF ss = <<>> THEN <<>>
  ELSE (IF Head(ss) = <<>> THEN <<>> ELSE <<Head(ss)>>) \o FilterNonEmpty(Tail(ss))

\* [...new Set(ss)]: first occurrences, in order
Dedup(ss) ==
  LET firsts == {i \in 1..Len(ss) : \A j \in 1..(i - 1) : ss[j] # ss[i]}
  IN [k \in 1..Cardinality(firsts) |->
        ss[CHOOSE i \in firsts : Cardinality({j \in firsts : j <= i}) = k]]

Comma == <<",">>
CommaSpace == <<",", " ">>

\* s.split(",").map(t => t.trim())
SplitTrim(s) == LET p == Split(s, Comma) IN [i \in 1..Len(p) |-> Trim(p[i])]
\* s.split(",").map(t => t.trim()).filter(Boolean)
ParseTags(s) == FilterNonEmpty(SplitTrim(s))

---------------------------------------------------------------------------
(* Filter evaluators *)

\* the variant-level filter fields of the spec
VariantFilterFields ==
  {"price", "compareAtPrice", "sku", "barcode", "inventoryQuantity", "weight"}

\* the value the wizard's evaluateFilter reads off one variant node for a
\* variant-level field; NoVariant stands for edges[0] being undefined
NoVariant ==
  [id |-> 0, title |-> Null, price |-> Null, compareAtPrice |-> Null, sku |-> Null,
   barcode |-> Null, inventoryQuantity |-> NullNum, weight |-> NullNum]

BulkVariantValue(v, field) ==
  CASE field = "price" -> OrEmpty(v.price)
    [] field = "compareAtPrice" -> OrEmpty(v.compareAtPrice)
    [] field = "inventoryQuantity" ->
         IF v.inventoryQuantity.t = "null" THEN <<>> ELSE NumToString(v.inventoryQuantity)
    [] field = "sku" -> OrEmpty(v.sku)
    [] field = "weight" ->
         IF v.weight.t = "null" THEN <<"0">> ELSE NumToString(v.weight)
    [] OTHER -> <<>>

\* product[rule.field] || "" for the wizard's product node
BulkProductField(product, field) ==
  CASE field = "title" -> OrEmpty(product.title)
    [] field = "vendor" -> OrEmpty(product.vendor)
    [] field = "productType" -> OrEmpty(product.productType)
    [] field = "status" -> OrEmpty(product.status)
    [] OTHER -> <<>>

FirstVariant(product) ==
  IF Len(product.variants) > 0 THEN product.variants[1] ELSE NoVariant

\* lines 483-511: the value the rule is compared with
BulkFilterValue(product, rule) ==
  CASE rule.field \in {"price", "compareAtPrice", "inventoryQuantity", "sku", "weight"} ->
         BulkVariantValue(FirstVariant(product), rule.field)
    [] rule.field = "templateSuffix" -> <<>>
    [] rule.field = "variantTitle" ->
         Join([i \in 1..Len(product.variants) |-> OrEmpty(product.variants[i].title)],
              CommaSpace)
    [] rule.field = "tags" -> Join(product.tags, CommaSpace)
    [] OTHER -> BulkProductField(product, rule.field)

NumericEqFields == {"price", "compareAtPrice", "inventoryQuantity"}

\* lines 513-534 (wizard) and 68-86 (webhook): the operator switch, the same text
\* in both files
matchValue(value, rule) ==
  LET v == ToLower(value)
      rv == ToLower(OrEmpty(rule.value))
      rv2 == ToLower(OrEmpty(rule.value2))
      fv == ParseFloat(value)
      frv == IF rule.value = Null THEN NaN ELSE ParseFloat(rule.value)
  IN CASE rule.operator = "contains" -> Includes(v, rv)
       [] rule.operator = "not_contains" -> ~Includes(v, rv)
       [] rule.operator = "equals" ->
            IF rule.field \in NumericEqFields THEN NumEq(fv, frv) ELSE v = rv
       [] rule.operator = "not_equals" ->
            IF rule.field \in NumericEqFields THEN NumNe(fv, frv) ELSE v # rv
       [] rule.operator = "starts_with" -> StartsWith(v, rv)
       [] rule.operator = "ends_with" -> EndsWith(v, rv)
       [] rule.operator = "is_empty" -> value = <<>>
       [] rule.operator = "is_not_empty" -> value # <<>>
       [] rule.operator = "greater_than" -> NumGt(fv, frv)
       [] rule.operator = "less_than" -> NumLt(fv, frv)
       [] rule.operator = "greater_or_equal" -> NumGe(fv, frv)
       [] rule.operator = "less_or_equal" -> NumLe(fv, frv)
       [] rule.operator = "between" -> NumGe(fv, frv) /\ NumLe(fv, ParseFloat(rv2))
       [] OTHER -> TRUE

\* the wizard's evaluateFilter
BulkEvaluateFilter(product, rule) == matchValue(BulkFilterValue(product, rule), rule)

\* the product the webhook builds from the products/update payload of a
\* catalog product (lines 18-38); the payload carries no weight
HookVariant(v) ==
  [id |-> v.id, title |-> OrEmpty(v.title),
   price |-> IF Truthy(v.price) THEN v.price ELSE <<"0">>,
   compareAtPrice |-> IF Truthy(v.compareAtPrice) THEN v.compareAtPrice ELSE Null,
   sku |-> OrEmpty(v.sku), barcode |-> OrEmpty(v.barcode),
   inventoryQuantity |->
     IF v.inventoryQuantity.t = "num" /\ v.inventoryQuantity.n # 0
     THEN v.inventoryQuantity ELSE Num(0)]

HookProduct(p) ==
  [id |-> p.id, title |-> OrEmpty(p.title), vendor |-> OrEmpty(p.vendor),
   productType |-> OrEmpty(p.productType), status |-> OrEmpty(p.status),
   tags |-> ParseTags(Join(p.tags, CommaSpace)),
   variants |-> [i \in 1..Len(p.variants) |-> HookVariant(p.variants[i])]]

\* String(v[rule.field] || "") for a variant of the webhook's product
HookVariantValue(v, field) ==
  CASE field = "price" -> OrEmpty(v.price)
    [] field = "compareAtPrice" -> OrEmpty(v.compareAtPrice)
    [] field = "sku" -> OrEmpty(v.sku)
    [] field = "barcode" -> OrEmpty(v.barcode)
    [] field = "inventoryQuantity" ->
         IF v.inventoryQuantity.n = 0 THEN <<>> ELSE NumToString(v.inventoryQuantity)
    [] OTHER -> <<>>

HookVariantFields == {"price", "compareAtPrice", "sku", "barcode", "inventoryQuantity"}

\* the webhook's evaluateFilter (lines 59-66), on the product it built
HookEvaluateFilter(product, rule) ==
  IF rule.field \in HookVariantFields
  THEN \E i \in 1..Len(product.variants) :
         matchValue(HookVariantValue(product.variants[i], rule.field), rule)
  ELSE matchValue(IF rule.field = "tags" THEN Join(product.tags, CommaSpace)
                  ELSE BulkProductField(product, rule.field), rule)

---------------------------------------------------------------------------
(* Value transformers *)

\* EDITABLE_FIELDS of the wizard: category and level of every editable field
BulkEditableFields ==
  {"price", "compareAtPrice", "sku", "barcode", "weight", "title", "vendor",
   "productType", "tags", "status", "templateSuffix"}
\* EDITABLE_FIELDS of the webhook: no weight, no templateSuffix
HookEditableFields ==
  {"price", "compareAtPrice", "sku", "barcode", "title", "vendor", "productType",
   "tags", "status"}
FieldCategory(field) ==
  CASE field \in {"price", "compareAtPrice", "weight"} -> "numeric"
    [] field \in {"sku", "barcode", "title", "vendor", "productType", "templateSuffix"} -> "text"
    [] field = "tags" -> "tags"
    [] field = "status" -> "select"
    [] OTHER -> "none"
FieldLevel(field) ==
  IF field \in {"price", "compareAtPrice", "sku", "barcode", "weight"}
  THEN "variant" ELSE "product"

\* Intermediate results of the arithmetic are kept in units of 1/Fine, which is
\* exact for operands with at most two decimals; One is 1.0 in those units.
Fine == Scale * 100
One == Fine

\* the arithmetic of the change type (the switch on mod.type); c and v are
\* numbers, the result is a number in units of 1/Fine, or NaN
Arith(type, c, v) ==
  CASE type = "exact" -> Num(v.n * 100)
    [] c.t # "num" -> NaN
    [] type = "increase_percent" ->
         Num((c.n \div 100) * ((100 * Scale + v.n) \div 100))
    [] type = "decrease_percent" ->
         Num((c.n \div 100) * ((100 * Scale - v.n) \div 100))
    [] type = "increase_fixed" -> Num((c.n + v.n) * 100)
    [] type = "decrease_fixed" -> Num((c.n - v.n) * 100)
    [] OTHER -> Num(c.n * 100)

\* a .99 / .95 rounding that starts from the nearest integer
RoundedNearest(rounding, r) ==
  IF r.t # "num" THEN r
  ELSE CASE rounding = "99" -> Num(((r.n + One \div 2) \div One) * One + 99 * (One \div 100))
         [] rounding = "95" -> Num(((r.n + One \div 2) \div One) * One + 95 * (One \div 100))
         [] rounding = "whole" -> Num(((r.n + One \div 2) \div One) * One)
         [] OTHER -> r

\* Math.floor(r) + 0.99 / + 0.95, Math.round(r)
Rounded(rounding, r) ==
  IF r.t # "num" THEN r
  ELSE CASE rounding = "99" -> Num((r.n \div One) * One + 99 * (One \div 100))
         [] rounding = "95" -> Num((r.n \div One) * One + 95 * (One \div 100))
         [] rounding = "whole" -> Num(((r.n + One \div 2) \div One) * One)
         [] OTHER -> r

\* Math.max(0, r)
Max0(r) == IF r.t = "num" /\ r.n < 0 THEN Num(0) ELSE r

\* Math.max(0, r).toFixed(2), r in units of 1/Fine
FormatPrice(r) ==
  IF r.t # "num" THEN <<"N", "a", "N">>
  ELSE ToFixed2(Num(Max0(r).n \div 100))

\* r % 1 === 0 ? String(r) : String(parseFloat(r.toFixed(4))), r in units of 1/Fine
FormatPlain(r) ==
  IF r.t # "num" THEN <<"N", "a", "N">>
  ELSE NumToString(Num((Max0(r).n + 50) \div 100))

PriceFields == {"price", "compareAtPrice", "cost"}

\* cur.split(value).join(value2 || "")
FindReplace(cur, value, value2) == Join(Split(cur, value), OrEmpty(value2))

\* curTags.filter(t => !removeTags.includes(t.toLowerCase()))
RECURSIVE RemoveTagsLower(_, _)
RemoveTagsLower(curTags, removeTags) ==
  IF curTags = <<>> THEN <<>>
  ELSE (IF \E i \in 1..Len(removeTags) : removeTags[i] = ToLower(Head(curTags))
        THEN <<>> ELSE <<Head(curTags)>>)
       \o RemoveTagsLower(Tail(curTags), removeTags)

\* curTags.filter(t => !newTags.includes(t))
RECURSIVE RemoveTagsExact(_, _)
RemoveTagsExact(curTags, newTags) ==
  IF curTags = <<>> THEN <<>>
  ELSE (IF \E i \in 1..Len(newTags) : newTags[i] = Head(curTags)
        THEN <<>> ELSE <<Head(curTags)>>)
       \o RemoveTagsExact(Tail(curTags), newTags)

\* calcValue of the wizard; current is a string or Null, the result a string or Null
BulkCalcValue(current, mod) ==
  LET cat == IF mod.field \in BulkEditableFields THEN FieldCategory(mod.field) ELSE "none"
      cur == OrEmpty(current)
  IN CASE cat = "numeric" ->
            LET c == ParseFloat(IF Truthy(current) THEN current ELSE <<"0">>)
                v == ParseFloat(mod.value)
                r == Arith(mod.type, c, v)
            IN IF v.t # "num" THEN Null
               ELSE IF mod.field \in PriceFields
                    THEN FormatPrice(Rounded(mod.rounding, r))
                    ELSE FormatPlain(r)
       [] cat = "text" ->
            CASE mod.type = "set" -> mod.value
              [] mod.type = "prepend" -> mod.value \o cur
              [] mod.type = "append" -> cur \o mod.value
              [] mod.type = "find_replace" -> FindReplace(cur, mod.value, mod.value2)
              [] OTHER -> cur
       [] cat = "tags" ->
            LET curTags == ParseTags(cur)
            IN CASE mod.type = "add" ->
                      Join(Dedup(curTags \o ParseTags(mod.value)), CommaSpace)
                 [] mod.type = "remove" ->
                      Join(RemoveTagsLower(curTags,
                             LET p == SplitTrim(mod.value)
                             IN [i \in 1..Len(p) |-> ToLower(p[i])]), CommaSpace)
                 [] mod.type = "set" -> mod.value
                 [] OTHER -> current
       [] cat = "select" -> mod.value
       [] OTHER -> Null

\* calcValue of the webhook
HookCalcValue(current, mod) ==
  LET cat == IF mod.field \in HookEditableFields THEN FieldCategory(mod.field) ELSE "none"
      cur == OrEmpty(current)
  IN CASE cat = "numeric" ->
            LET c == ParseFloat(IF Truthy(current) THEN current ELSE <<"0">>)
                v == ParseFloat(mod.value)
                r == Arith(mod.type, c, v)
            IN IF v.t # "num" THEN Null
               ELSE FormatPrice(Rounded(mod.rounding, r))
       [] cat = "text" ->
            CASE mod.type = "set" -> mod.value
              [] mod.type = "prepend" -> mod.value \o cur
              [] mod.type = "append" -> cur \o mod.value
              [] mod.type = "find_replace" -> FindReplace(cur, mod.value, mod.value2)
              [] OTHER -> cur
       [] cat = "tags" ->
            LET curTags == ParseTags(cur)
                newTags == ParseTags(OrEmpty(mod.value))
            IN CASE mod.type = "add" -> Join(Dedup(curTags \o newTags), CommaSpace)
                 [] mod.type = "remove" -> Join(RemoveTagsExact(curTags, newTags), CommaSpace)
                 [] mod.type = "set" -> Join(newTags, CommaSpace)
                 [] OTHER -> current
       [] cat = "select" /\ mod.type = "set" -> mod.value
       [] OTHER -> Null

---------------------------------------------------------------------------
(* Change planner of the wizard *)

\* the product node the loader's query returns for a catalog product: the query
\* does not select templateSuffix
LoadProduct(p) ==
  [id |-> p.id, title |-> p.title, vendor |-> p.vendor, productType |-> p.productType,
   status |-> p.status, tags |-> p.tags, variants |-> p.variants]
LoadProducts(cat) == [i \in 1..Len(cat) |-> LoadProduct(cat[i])]

\* fieldDef.accessor(variant)
VariantAccessor(v, field) ==
  CASE field = "price" -> v.price
    [] field = "compareAtPrice" -> v.compareAtPrice
    [] field = "sku" -> OrEmpty(v.sku)
    [] field = "barcode" -> OrEmpty(v.barcode)
    [] field = "weight" -> IF v.weight.t = "null" THEN <<"0">> ELSE NumToString(v.weight)
    [] OTHER -> <<>>

\* cur || (numeric ? "0" : "")
CurOrDefault(cur, field) ==
  IF Truthy(cur) THEN cur
  ELSE IF FieldCategory(field) = "numeric" THEN <<"0">> ELSE <<>>

MkChange(product, vid, vtitle, mod, old, new) ==
  [productId |-> product.id, productTitle |-> product.title, variantId |-> vid,
   variantTitle |-> vtitle, field |-> mod.field, oldValue |-> old, newValue |-> new,
   modificationType |-> mod.type]

\* the product-level branch: at most one change for the product
PlanProductLevel(product, mod) ==
  LET cur == IF mod.field = "tags" THEN Join(product.tags, CommaSpace)
             ELSE BulkProductField(product, mod.field)
      nv == BulkCalcValue(cur, mod)
  IN IF nv = Null \/ nv = cur THEN <<>>
     ELSE <<MkChange(product, 0, Null, mod, cur, nv)>>

\* a planner that compares the values of every field as text
SameValueAsText(field, cur, nv) == OrEmpty(cur) = nv

\* same value under the field's equality: parsed numbers for a numeric field,
\* strings otherwise
SameValue(field, cur, nv) ==
  IF FieldCategory(field) = "numeric"
  THEN NumEq(ParseFloat(CurOrDefault(cur, field)), ParseFloat(nv))
  ELSE OrEmpty(cur) = nv

\* the variant-level branch for one variant; skipBlank is the guard of line 817,
\* which only the review list has
PlanVariant(product, variant, mod, skipBlank) ==
  LET cur == VariantAccessor(variant, mod.field)
      nv == BulkCalcValue(CurOrDefault(cur, mod.field), mod)
  IN IF skipBlank /\ ~Truthy(cur) /\ mod.type \notin {"exact", "set"}
        /\ FieldCategory(mod.field) = "numeric"
     THEN <<>>
     ELSE IF nv = Null THEN <<>>
     ELSE IF SameValue(mod.field, cur, nv) THEN <<>>
     ELSE <<MkChange(product, variant.id, variant.title, mod,
                     CurOrDefault(cur, mod.field), nv)>>

PlanMod(product, mod, skipBlank) ==
  IF mod.field \notin BulkEditableFields THEN <<>>
  ELSE IF FieldLevel(mod.field) = "product" THEN PlanProductLevel(product, mod)
  ELSE Concat([i \in 1..Len(product.variants) |->
                 PlanVariant(product, product.variants[i], mod, skipBlank)])

\* outer loop over the products, inner loop over the modifications
Plan(selected, modifications, skipBlank) ==
  Concat([i \in 1..Len(selected) |->
            Concat([j \in 1..Len(modifications) |->
                      PlanMod(selected[i], modifications[j], skipBlank)])])

\* the 'changes' list of the review step (useMemo, lines 784-844)
ReviewChanges(st, selected, modifications) ==
  IF st # 3 THEN <<>> ELSE Plan(selected, modifications, TRUE)

\* the list confirmExecute builds and submits (lines 895-918)
ChangesToSubmit(selected, modifications) == Plan(selected, modifications, FALSE)

\* canPreview, with a selection present
CanPreview(modifications) ==
  /\ Len(modifications) > 0
  /\ \A i \in 1..Len(modifications) : Truthy(modifications[i].value)

---------------------------------------------------------------------------
(* The catalog: productUpdate and productVariantsBulkUpdate *)

NoFields == [f \in {} |-> <<>>]

\* productUpdate(input: {id, ...fields}): the given fields of the product are set
CatalogProductUpdate(cat, pid, input) ==
  [i \in 1..Len(cat) |->
     IF cat[i].id # pid THEN cat[i]
     ELSE [f \in DOMAIN cat[i] |-> IF f \in DOMAIN input THEN input[f] ELSE cat[i][f]]]

SetVariantFields(v, set) ==
  [f \in DOMAIN v |-> IF f \in DOMAIN set THEN set[f] ELSE v[f]]

\* one entry {id, ...fields} of productVariantsBulkUpdate
RECURSIVE ApplyEntries(_, _)
ApplyEntries(variants, entries) ==
  IF entries = <<>> THEN variants
  ELSE ApplyEntries([k \in 1..Len(variants) |->
                       IF variants[k].id = Head(entries).id
                       THEN SetVariantFields(variants[k], Head(entries).set)
                       ELSE variants[k]],
                    Tail(entries))

\* productVariantsBulkUpdate(productId, variants): the entries are applied in order
CatalogVariantsUpdate(cat, pid, entries) ==
  [i \in 1..Len(cat) |->
     IF cat[i].id # pid THEN cat[i]
     ELSE [cat[i] EXCEPT !.variants = ApplyEntries(cat[i].variants, entries)]]

\* the catalog cannot accept an entry that names no variant of the product
EntriesAcceptable(cat, pid, entries) ==
  \A e \in 1..Len(entries) :
    \E i \in 1..Len(cat) :
      cat[i].id = pid /\ \E k \in 1..Len(cat[i].variants) : cat[i].variants[k].id = entries[e].id

---------------------------------------------------------------------------
(* Batch executor and reversal: the requests built from a changeset *)

\* lines 173-174: the split of a product's changes in execute
ExecProductLevelFields ==
  {"title", "vendor", "productType", "status", "tags", "templateSuffix"}
ExecVariantLevelFields == {"price", "compareAtPrice", "sku", "barcode", "weight", "taxable"}
\* lines 321-322: the split in revert
RevertProductLevelFields == {"title", "vendor", "productType", "status", "tags"}

\* product ids in order of last appearance first
ProductOrderReversed(chs) ==
  LET ps == Dedup([i \in 1..Len(chs) |-> chs[i].productId])
  IN [k \in 1..Len(ps) |-> ps[Len(ps) + 1 - k]]

\* product ids in order of first appearance (Object.entries of changesByProduct)
ProductOrder(chs) == Dedup([i \in 1..Len(chs) |-> chs[i].productId])
ChangesOfProduct(chs, pid) == SelectSeq(chs, LAMBDA c : c.productId = pid)

ExecProductLevel(pcs) == SelectSeq(pcs, LAMBDA c : c.field \in ExecProductLevelFields)
ExecVariantLevel(pcs) == SelectSeq(pcs, LAMBDA c : c.field \in ExecVariantLevelFields)
RevertProductLevel(pcs) == SelectSeq(pcs, LAMBDA c : c.field \in RevertProductLevelFields)
RevertVariantLevel(pcs) == SelectSeq(pcs, LAMBDA c : c.field \notin RevertProductLevelFields)

\* the value a product-level field is set to
ProductFieldInput(field, value) == IF field = "tags" THEN ParseTags(value) ELSE value

\* productInput of execute (lines 178-186): a later change of a field overwrites
RECURSIVE ExecProductInput(_)
ExecProductInput(plc) ==
  IF plc = <<>> THEN NoFields
  ELSE LET c == plc[Len(plc)]
       IN (c.field :> ProductFieldInput(c.field, c.newValue))
          @@ ExecProductInput(SubSeq(plc, 1, Len(plc) - 1))

\* productInput of revert (lines 325-332): the old values
RECURSIVE RevertProductInput(_)
RevertProductInput(plc) ==
  IF plc = <<>> THEN NoFields
  ELSE LET c == plc[Len(plc)]
       IN (c.field :> ProductFieldInput(c.field, c.oldValue))
          @@ RevertProductInput(SubSeq(plc, 1, Len(plc) - 1))

\* an executor whose entries carry the four text-valued fields only
ExecVariantSetNoWeight(c) ==
  IF c.field \in {"price", "compareAtPrice", "sku", "barcode"} THEN c.field :> c.newValue
  ELSE NoFields

\* the field a variant-level change of execute sets on its entry (lines 228-239)
ExecVariantSet(c) ==
  IF c.field \in {"price", "compareAtPrice", "sku", "barcode"} THEN c.field :> c.newValue
  ELSE IF c.field = "weight" THEN "weight" :> ParseFloat(c.newValue)
  ELSE NoFields

\* variantMap of execute (lines 224-243): one entry per variant, in order of
\* first appearance, a later change of a field overwriting
RECURSIVE ExecVariantEntries(_)
ExecVariantEntries(vlc) ==
  IF vlc = <<>> THEN <<>>
  ELSE LET c == vlc[Len(vlc)]
           init == ExecVariantEntries(SubSeq(vlc, 1, Len(vlc) - 1))
       IN IF \E k \in 1..Len(init) : init[k].id = c.variantId
          THEN [k \in 1..Len(init) |->
                  IF init[k].id = c.variantId
                  THEN [init[k] EXCEPT !.set = ExecVariantSet(c) @@ init[k].set]
                  ELSE init[k]]
          ELSE Append(init, [id |-> c.variantId, set |-> ExecVariantSet(c)])

\* the entries of revert (lines 341-348): one entry per change, the old value,
\* four fields only
RevertVariantEntries(vlc) ==
  [k \in 1..Len(vlc) |->
     [id |-> vlc[k].variantId,
      set |-> IF vlc[k].field \in {"price", "compareAtPrice", "sku", "barcode"}
              THEN vlc[k].field :> vlc[k].oldValue ELSE NoFields]]

\* outcome of one request to the catalog
Outcomes == {"ok", "userErrors", "throw"}

\* one PriceHistory record of execute (lines 207-217, 265-275)
HistoryRecord(c, pid) ==
  [productId |-> c.productId, variantId |-> IF c.variantId = 0 THEN pid ELSE c.variantId,
   oldPrice |-> c.oldValue, newPrice |-> c.newValue, changeType |-> c.field,
   changeSource |-> "bulk_edit"]

\* what one request leaves in the log of requests issued to the catalog
Issued(pid, kind, n, outcome) == [productId |-> pid, kind |-> kind, n |-> n, outcome |-> outcome]

\* the accumulators of one invocation
NewRun(cat) ==
  [cat |-> cat, successCount |-> 0, errorCount |-> 0, errors |-> <<>>,
   historyRecords |-> <<>>, log |-> <<>>]

\* the product-level request of execute (lines 177-220); o is the catalog's outcome
ExecProductRequest(run, pid, plc, o) ==
  IF plc = <<>> THEN run
  ELSE IF o = "ok"
  THEN [run EXCEPT
          !.cat = CatalogProductUpdate(run.cat, pid, ExecProductInput(plc)),
          !.successCount = @ + Len(plc),
          !.historyRecords = @ \o [k \in 1..Len(plc) |-> HistoryRecord(plc[k], pid)],
          !.log = Append(@, Issued(pid, "product", Len(plc), o))]
  ELSE [run EXCEPT
          !.errorCount = @ + Len(plc),
          !.errors = Append(@, pid),
          !.log = Append(@, Issued(pid, "product", Len(plc), o))]

\* the variant-level request of execute (lines 223-278)
ExecVariantRequest(run, pid, vlc, o) ==
  IF vlc = <<>> THEN run
  ELSE IF o = "ok"
  THEN [run EXCEPT
          !.cat = CatalogVariantsUpdate(run.cat, pid, ExecVariantEntries(vlc)),
          !.successCount = @ + Len(vlc),
          !.historyRecords = @ \o [k \in 1..Len(vlc) |-> HistoryRecord(vlc[k], pid)],
          !.log = Append(@, Issued(pid, "variants", Len(vlc), o))]
  ELSE [run EXCEPT
          !.errorCount = @ + Len(vlc),
          !.errors = Append(@, pid),
          !.log = Append(@, Issued(pid, "variants", Len(vlc), o))]

\* a catch block that counts one error for the product
ExecCatchCountsOne(run, pid, pcs, kind, n) ==
  [run EXCEPT
     !.errorCount = @ + 1,
     !.errors = Append(@, pid),
     !.log = Append(@, Issued(pid, kind, n, "throw"))]

\* the catch block of execute (lines 279-282), entered when request `kind` threw
ExecCatch(run, pid, pcs, kind, n) ==
  [run EXCEPT
     !.errorCount = @ + Len(pcs),
     !.errors = Append(@, pid),
     !.log = Append(@, Issued(pid, kind, n, "throw"))]

\* one iteration of the loop of execute (lines 170-283): o1 and o2 are the
\* outcomes of the product-level and of the variant-level request
ExecOneProduct(run, chs, pid, o1, o2) ==
  LET pcs == ChangesOfProduct(chs, pid)
      plc == ExecProductLevel(pcs)
      vlc == ExecVariantLevel(pcs)
      r1 == ExecProductRequest(run, pid, plc, o1)
  IN IF plc # <<>> /\ o1 = "throw" THEN ExecCatch(run, pid, pcs, "product", Len(plc))
     ELSE IF vlc # <<>> /\ o2 = "throw" THEN ExecCatch(r1, pid, pcs, "variants", Len(vlc))
     ELSE ExecVariantRequest(r1, pid, vlc, o2)

\* the whole loop of execute; os[<<pid, kind>>] is the outcome the catalog gives
\* the request of that kind for that product
RECURSIVE ExecAll(_, _, _, _)
ExecAll(run, chs, pids, os) ==
  IF pids = <<>> THEN run
  ELSE ExecAll(ExecOneProduct(run, chs, Head(pids), os[<<Head(pids), "product">>],
                              os[<<Head(pids), "variants">>]),
               chs, Tail(pids), os)

\* the requests a changeset can give rise to
Slots(chs) == {chs[i].productId : i \in 1..Len(chs)} \X {"product", "variants"}

\* the whole loop with every request accepted by the catalog
ExecAllOk(run, chs, pids) == ExecAll(run, chs, pids, [sl \in Slots(chs) |-> "ok"])

\* changes.slice(0, 50) (line 300)
StoredChangesCap == 50
Slice(s, n) == SubSeq(s, 1, IF Len(s) < n THEN Len(s) ELSE n)

\* a BulkEdit row whose status tells whether anything was applied
BulkEditRecordByApplied(run, chs) ==
  [status |-> IF run.successCount > 0 THEN "completed" ELSE "partial",
   productCount |-> run.successCount,
   changes |-> Slice(chs, StoredChangesCap)]

\* the BulkEdit row execute creates after the loop (lines 293-303)
BulkEditRecord(run, chs) ==
  [status |-> IF run.errorCount = 0 THEN "completed" ELSE "partial",
   productCount |-> run.successCount,
   changes |-> Slice(chs, StoredChangesCap)]

\* the accumulators of one invocation of revert
NewRevert(cat) == [cat |-> cat, successCount |-> 0, errorCount |-> 0, log |-> <<>>]

\* the product-level request of revert (lines 324-337): userErrors are not read
RevertProductRequest(run, pid, plc, o) ==
  IF plc = <<>> THEN run
  ELSE [run EXCEPT
          !.cat = IF o = "ok" THEN CatalogProductUpdate(run.cat, pid, RevertProductInput(plc))
                  ELSE @,
          !.successCount = @ + Len(plc),
          !.log = Append(@, Issued(pid, "product", Len(plc), o))]

\* the variant-level request of revert (lines 339-354)
RevertVariantRequest(run, pid, vlc, o) ==
  IF vlc = <<>> THEN run
  ELSE [run EXCEPT
          !.cat = IF o = "ok" THEN CatalogVariantsUpdate(run.cat, pid, RevertVariantEntries(vlc))
                  ELSE @,
          !.successCount = @ + Len(vlc),
          !.log = Append(@, Issued(pid, "variants", Len(vlc), o))]

\* the catch block of revert (lines 355-357)
RevertCatch(run, pid, pcs, kind, n) ==
  [run EXCEPT
     !.errorCount = @ + Len(pcs),
     !.log = Append(@, Issued(pid, kind, n, "throw"))]

\* one iteration of the loop of revert (lines 319-358)
RevertOneProduct(run, chs, pid, o1, o2) ==
  LET pcs == ChangesOfProduct(chs, pid)
      plc == RevertProductLevel(pcs)
      vlc == RevertVariantLevel(pcs)
      r1 == RevertProductRequest(run, pid, plc, o1)
  IN IF plc # <<>> /\ o1 = "throw" THEN RevertCatch(run, pid, pcs, "product", Len(plc))
     ELSE IF vlc # <<>> /\ o2 = "throw" THEN RevertCatch(r1, pid, pcs, "variants", Len(vlc))
     ELSE RevertVariantRequest(r1, pid, vlc, o2)

RECURSIVE RevertAll(_, _, _, _)
RevertAll(run, chs, pids, os) ==
  IF pids = <<>> THEN run
  ELSE RevertAll(RevertOneProduct(run, chs, Head(pids), os[<<Head(pids), "product">>],
                                  os[<<Head(pids), "variants">>]),
                 chs, Tail(pids), os)

---------------------------------------------------------------------------
(* Sample data *)

MaxVariants == 2

S0 == <<"0">>
S5 == <<"5">>
S10 == <<"1", "0">>
S20 == <<"2", "0">>
S50 == <<"5", "0">>
S100 == <<"1", "0", "0">>
S500 == <<"5", ".", "0", "0">>
S1000 == <<"1", "0", ".", "0", "0">>
S1950 == <<"1", "9", ".", "5", "0">>
S2000 == <<"2", "0", ".", "0", "0">>
S5000 == <<"5", "0", ".", "0", "0">>
S6000 == <<"6", "0", ".", "0", "0">>

VariantA ==
  [id |-> 0, title |-> <<"S">>, price |-> S500, compareAtPrice |-> Null, sku |-> <<>>,
   barcode |-> <<>>, inventoryQuantity |-> Num(0), weight |-> NullNum]
VariantB ==
  [id |-> 0, title |-> <<"B">>, price |-> S5000, compareAtPrice |-> S6000,
   sku |-> <<"a", "b">>, barcode |-> <<"1", "2">>, inventoryQuantity |-> Num(7 * Scale),
   weight |-> Num(15000)]
VariantC ==
  [id |-> 0, title |-> <<"x">>, price |-> S1000, compareAtPrice |-> Null,
   sku |-> <<"A">>, barcode |-> Null, inventoryQuantity |-> NullNum, weight |-> Num(0)]
SampleVariants == {VariantA, VariantB, VariantC}

\* the variants of a product carry distinct ids, in catalog order
WithIds(vs) == [i \in 1..Len(vs) |-> [vs[i] EXCEPT !.id = i]]

\* a catalog product has at least one variant
VariantLists ==
  UNION {[1..n -> SampleVariants] : n \in 1..MaxVariants}

MkProduct(pid, vs) ==
  [id |-> pid, title |-> <<"a", "B">>, vendor |-> <<"x">>, productType |-> <<>>,
   status |-> <<"A">>, tags |-> << <<"s">>, <<"b">> >>, templateSuffix |-> <<>>,
   variants |-> WithIds(vs)]

---------------------------------------------------------------------------
(* Filter evaluation: one product, one rule, both evaluators *)

FilterFields == VariantFilterFields \cup {"title", "tags", "variantTitle"}
FilterOperators ==
  {"contains", "not_contains", "equals", "not_equals", "starts_with", "ends_with",
   "is_empty", "is_not_empty", "greater_than", "less_than", "greater_or_equal",
   "less_or_equal", "between"}
FilterValues == {S20, S100, <<"a">>, <<>>}

FilterRules ==
  {[field |-> f, operator |-> o, value |-> v,
    value2 |-> IF o = "between" THEN S50 ELSE <<>>] :
     f \in FilterFields, o \in FilterOperators, v \in FilterValues}

FilterInit ==
  /\ fProduct \in {MkProduct(1, vs) : vs \in VariantLists}
  /\ fRule \in FilterRules
  /\ fDone = {}
  /\ fBulk = FALSE
  /\ fHook = FALSE

\* the wizard's filtered list evaluates the rule on the loaded product
FilterEvalBulk ==
  /\ "bulk" \notin fDone
  /\ fBulk' = BulkEvaluateFilter(fProduct, fRule)
  /\ fDone' = fDone \cup {"bulk"}
  /\ UNCHANGED <<fProduct, fRule, fHook>>
  /\ UNCHANGED <<calcVars, planVars, execVars, quotaVars, auditVars, trailVars, matchVars, dbVars,
                 chainVars, wizVars>>

\* the webhook evaluates the rule on the product built from the payload
FilterEvalHook ==
  /\ "hook" \notin fDone
  /\ fHook' = HookEvaluateFilter(HookProduct(fProduct), fRule)
  /\ fDone' = fDone \cup {"hook"}
  /\ UNCHANGED <<fProduct, fRule, fBulk>>
  /\ UNCHANGED <<calcVars, planVars, execVars, quotaVars, auditVars, trailVars, matchVars, dbVars,
                 chainVars, wizVars>>

FilterNext == FilterEvalBulk \/ FilterEvalHook

\* C1: for a rule on a variant-level field, each evaluator returns true if and
\* only if at least one variant of the product satisfies the rule's comparison
\* (the wizard's evaluator on the loaded product, the webhook's evaluator on the
\* product built from the payload).
C1_ExistentialOverVariants ==
  fRule.field \in VariantFilterFields =>
    /\ "bulk" \in fDone =>
         (fBulk <=> \E i \in 1..Len(fProduct.variants) :
                      matchValue(BulkVariantValue(fProduct.variants[i], fRule.field), fRule))
    /\ "hook" \in fDone =>
         (fHook <=> \E i \in 1..Len(fProduct.variants) :
                      matchValue(HookVariantValue(HookProduct(fProduct).variants[i],
                                                  fRule.field), fRule))

\* the spec's example: variants priced 5.00 and 50.00, rule {price greater_than 20}
C1_ExampleReached ==
  /\ fDone = {"bulk", "hook"}
  /\ fProduct.variants = WithIds(<<VariantA, VariantB>>)
  /\ fRule = [field |-> "price", operator |-> "greater_than", value |-> S20,
              value2 |-> <<>>]

---------------------------------------------------------------------------
(* Value transformation: one current value, one modification, both transformers *)

NumericTypes ==
  {"exact", "increase_percent", "decrease_percent", "increase_fixed", "decrease_fixed"}
TextTypes == {"set", "prepend", "append", "find_replace"}
TagTypes == {"add", "remove", "set"}
Roundings == {"none", "99", "95", "whole"}

MkMod(f, t, v, v2, r) == [field |-> f, type |-> t, value |-> v, value2 |-> v2, rounding |-> r]

CalcMods ==
  {MkMod(f, t, v, <<>>, r) :
     f \in {"price", "compareAtPrice"}, t \in NumericTypes, v \in {S5, S50, <<"x">>},
     r \in Roundings}
  \cup {MkMod("weight", t, v, <<>>, "none") : t \in NumericTypes, v \in {S5, S50}}
  \cup {MkMod(f, t, v, <<"b">>, "none") :
          f \in {"sku", "title", "templateSuffix"}, t \in TextTypes, v \in {<<"a">>, <<"B">>}}
  \cup {MkMod("tags", t, v, <<>>, "none") :
          t \in TagTypes, v \in {<<"S">>, <<"b", ",", "x">>, <<"x", ",", " ", "s">>}}
  \cup {MkMod("status", "set", v, <<>>, "none") : v \in {<<"A">>, <<"D">>}}

CalcCurrents ==
  {Null, <<>>, S1950, S1000, S500, <<"s", ",", " ", "b">>, <<"a", "B", "a">>}

CalcInit ==
  /\ cCur \in CalcCurrents
  /\ cMod \in CalcMods
  /\ cDone = {}
  /\ cBulk = Null
  /\ cHook = Null

CalcBulk ==
  /\ "bulk" \notin cDone
  /\ cBulk' = BulkCalcValue(cCur, cMod)
  /\ cDone' = cDone \cup {"bulk"}
  /\ UNCHANGED <<cCur, cMod, cHook>>
  /\ UNCHANGED <<filterVars, planVars, execVars, quotaVars, auditVars, trailVars, matchVars, dbVars,
                 chainVars, wizVars>>

CalcHook ==
  /\ "hook" \notin cDone
  /\ cHook' = HookCalcValue(cCur, cMod)
  /\ cDone' = cDone \cup {"hook"}
  /\ UNCHANGED <<cCur, cMod, cBulk>>
  /\ UNCHANGED <<filterVars, planVars, execVars, quotaVars, auditVars, trailVars, matchVars, dbVars,
                 chainVars, wizVars>>

CalcNext == CalcBulk \/ CalcHook

\* C2: for every current value and every modification, the wizard's calcValue
\* and the webhook's calcValue return the same result (the same string, or null
\* in both).
C2_SameResult == cDone = {"bulk", "hook"} => cBulk = cHook

---------------------------------------------------------------------------
(* The wizard: review, confirm, execute, review again *)

MaxRounds == 2

PlanMods ==
  {MkMod("price", "exact", S1000, <<>>, "none"),
   MkMod("price", "exact", S10, <<>>, "99"),
   MkMod("price", "increase_fixed", S5, <<>>, "none"),
   MkMod("price", "decrease_percent", S50, <<>>, "99"),
   MkMod("compareAtPrice", "exact", S0, <<>>, "none"),
   MkMod("compareAtPrice", "increase_percent", S50, <<>>, "none"),
   MkMod("compareAtPrice", "increase_percent", S20, <<>>, "99"),
   MkMod("weight", "exact", S5, <<>>, "none"),
   MkMod("weight", "increase_fixed", S5, <<>>, "none"),
   MkMod("sku", "set", <<"A">>, <<>>, "none"),
   MkMod("sku", "append", <<"a">>, <<>>, "none"),
   MkMod("title", "set", <<"B">>, <<>>, "none"),
   MkMod("title", "find_replace", <<"a">>, <<"b">>, "none"),
   MkMod("tags", "add", <<"b", ",", "x">>, <<>>, "none"),
   MkMod("tags", "remove", <<"S">>, <<>>, "none"),
   MkMod("tags", "set", <<"b", ",", "x">>, <<>>, "none"),
   MkMod("status", "set", <<"D">>, <<>>, "none"),
   MkMod("templateSuffix", "set", <<"a">>, <<>>, "none")}

\* one modification, or two of them in either order
PlanModLists ==
  {<<m>> : m \in PlanMods}
  \cup {<<m1, m2>> : m1 \in PlanMods, m2 \in {m \in PlanMods : m.field \in {"price", "tags"}}}

PlanInit ==
  /\ catalog \in {<<MkProduct(1, vs)>> : vs \in VariantLists}
  /\ products = LoadProducts(catalog)
  /\ mods \in {ms \in PlanModLists : CanPreview(ms)}
  /\ step = 2
  /\ changes = <<>>
  /\ built = <<>>
  /\ lastChanges = <<>>
  /\ fetcher = "idle"
  /\ round = 0

\* "Preview" of step 2, or the step indicator from the result page
GoToReview ==
  /\ step \in {2, 4}
  /\ fetcher = "idle"
  /\ CanPreview(mods)
  /\ step' = 3
  /\ changes' = ReviewChanges(3, products, mods)
  /\ UNCHANGED <<catalog, products, mods, built, lastChanges, fetcher, round>>
  /\ UNCHANGED <<filterVars, calcVars, execVars, quotaVars, auditVars, trailVars, matchVars, dbVars,
                 chainVars, wizVars>>

\* "Back to Configure"
BackToConfigure ==
  /\ step = 3
  /\ fetcher = "idle"
  /\ step' = 2
  /\ changes' = ReviewChanges(2, products, mods)
  /\ UNCHANGED <<catalog, products, mods, built, lastChanges, fetcher, round>>
  /\ UNCHANGED <<filterVars, calcVars, execVars, quotaVars, auditVars, trailVars, matchVars, dbVars,
                 chainVars, wizVars>>

\* "Apply N Changes", enabled while the review list is not empty, then "Yes,
\* Apply Changes": confirmExecute builds the list afresh and submits it unless
\* it is empty
ConfirmExecute ==
  /\ step = 3
  /\ fetcher = "idle"
  /\ changes # <<>>
  /\ round < MaxRounds
  /\ built' = ChangesToSubmit(products, mods)
  /\ IF built' = <<>>
     THEN UNCHANGED <<lastChanges, fetcher>>
     ELSE lastChanges' = built' /\ fetcher' = "submitting"
  /\ UNCHANGED <<catalog, products, mods, step, changes, round>>
  /\ UNCHANGED <<filterVars, calcVars, execVars, quotaVars, auditVars, trailVars, matchVars, dbVars,
                 chainVars, wizVars>>

\* the execute action with every request accepted, the loader's revalidation
\* and the effect that shows the result page
ExecuteAccepted ==
  /\ fetcher = "submitting"
  /\ catalog' = ExecAllOk(NewRun(catalog), lastChanges, ProductOrder(lastChanges)).cat
  /\ products' = LoadProducts(catalog')
  /\ step' = 4
  /\ changes' = ReviewChanges(4, products', mods)
  /\ fetcher' = "idle"
  /\ round' = round + 1
  /\ UNCHANGED <<mods, built, lastChanges>>
  /\ UNCHANGED <<filterVars, calcVars, execVars, quotaVars, auditVars, trailVars, matchVars, dbVars,
                 chainVars, wizVars>>

PlanNext == GoToReview \/ BackToConfigure \/ ConfirmExecute \/ ExecuteAccepted

---------------------------------------------------------------------------
(* No-op suppression and idempotence of the planner *)

\* equality of an emitted old and new value: the parsed numbers for a numeric
\* field, the strings for every other field
FieldEqual(field, old, new) ==
  IF FieldCategory(field) = "numeric" THEN NumEq(ParseFloat(old), ParseFloat(new))
  ELSE old = new

NoOpFree(chs) ==
  \A i \in 1..Len(chs) : ~FieldEqual(chs[i].field, chs[i].oldValue, chs[i].newValue)

PriceExact1000 == <<MkMod("price", "exact", S1000, <<>>, "none")>>

\* C3: no list the planner produces (the review list, the list confirmExecute
\* builds, the list it submits) holds a change whose new value equals its old
\* value under the field's equality; planning {price exact 10.00} gives no
\* change for a variant priced 10.00
C3_NoOpSuppressed ==
  /\ NoOpFree(changes)
  /\ NoOpFree(built)
  /\ NoOpFree(lastChanges)
  /\ (step = 3 /\ mods = PriceExact1000) =>
       \A i \in 1..Len(products) : \A k \in 1..Len(products[i].variants) :
         products[i].variants[k].price = S1000 =>
           ~\E c \in 1..Len(changes) :
              changes[c].productId = products[i].id /\ changes[c].variantId = k

\* the review of {price exact 10.00} over variants priced 10.00 and 50.00: one
\* change, for the second variant
C3_PriceExactReviewed ==
  /\ step = 3 /\ round = 0 /\ mods = PriceExact1000
  /\ Len(products[1].variants) = 2
  /\ products[1].variants[1].price = S1000
  /\ products[1].variants[2].price = S5000
  /\ Len(changes) = 1 /\ changes[1].variantId = 2

\* C4 as stated: after a changeset has been applied, planning the same
\* modifications again gives an empty changeset, in the review list and in the
\* list confirmExecute builds
C4_Idempotent ==
  round >= 1 =>
    /\ ChangesToSubmit(products, mods) = <<>>
    /\ step = 3 => changes = <<>>

\* a modification whose result does not depend on the current value, on a field
\* the loader reads back
AbsoluteMod(m) ==
  \/ FieldCategory(m.field) = "numeric" /\ m.type = "exact"
  \/ m.field \in {"sku", "barcode", "title", "vendor", "productType"} /\ m.type = "set"
  \/ m.field = "status"
  \/ m.field = "tags" /\ m.type \in {"add", "remove"}

Convergent(ms) ==
  /\ \A i \in 1..Len(ms) : AbsoluteMod(ms[i])
  /\ \A i, j \in 1..Len(ms) : i # j => ms[i].field # ms[j].field

\* C4 amended: for a list of absolute modifications on pairwise distinct
\* fields, planning again after the changeset has been applied gives an empty
\* changeset
C4_IdempotentAbsolute ==
  (round >= 1 /\ Convergent(mods)) =>
    /\ ChangesToSubmit(products, mods) = <<>>
    /\ step = 3 => changes = <<>>

\* a non-empty changeset of absolute modifications has been applied and the
\* review step is showing the plan for the new state
C4_ReplannedEmpty ==
  /\ round = 1 /\ step = 3 /\ Convergent(mods)
  /\ Len(lastChanges) >= 2
  /\ changes = <<>>

---------------------------------------------------------------------------
(* Execute and revert of a planned changeset against the catalog.  A request
   that fails, by userErrors or by an exception, leaves the catalog as it was. *)

MaxFailures == 1

ExecVariantLists == {<<VariantA>>, <<VariantB, VariantC>>}
ExecCatalogs ==
  {<<MkProduct(1, v1), MkProduct(2, v2), MkProduct(3, v3)>> :
     v1 \in ExecVariantLists, v2 \in ExecVariantLists, v3 \in ExecVariantLists}

\* nine modifications of variant fields, each of which changes every variant
ManyMods ==
  <<MkMod("sku", "append", <<"a">>, <<>>, "none"),
    MkMod("barcode", "append", <<"1">>, <<>>, "none"),
    MkMod("price", "increase_fixed", S5, <<>>, "none"),
    MkMod("compareAtPrice", "increase_fixed", S5, <<>>, "none"),
    MkMod("weight", "increase_fixed", S5, <<>>, "none"),
    MkMod("sku", "prepend", <<"b">>, <<>>, "none"),
    MkMod("barcode", "prepend", <<"2">>, <<>>, "none"),
    MkMod("price", "increase_percent", S10, <<>>, "none"),
    MkMod("sku", "set", <<"c">>, <<>>, "none")>>

ExecModLists ==
  {<<MkMod("title", "set", <<"B">>, <<>>, "none")>>,
   <<MkMod("price", "increase_fixed", S5, <<>>, "none")>>,
   <<MkMod("price", "exact", S1000, <<>>, "none")>>,
   <<MkMod("weight", "exact", S5, <<>>, "none")>>,
   <<MkMod("compareAtPrice", "exact", S5, <<>>, "none")>>,
   <<MkMod("templateSuffix", "set", <<"a">>, <<>>, "none")>>,
   <<MkMod("tags", "add", <<"b", ",", "x">>, <<>>, "none")>>,
   <<MkMod("title", "set", <<"B">>, <<>>, "none"),
     MkMod("price", "increase_fixed", S5, <<>>, "none")>>,
   <<MkMod("sku", "append", <<"a">>, <<>>, "none"),
     MkMod("status", "set", <<"D">>, <<>>, "none")>>,
   <<MkMod("price", "exact", S1000, <<>>, "none"),
     MkMod("price", "increase_fixed", S5, <<>>, "none")>>,
   <<MkMod("tags", "remove", <<"S">>, <<>>, "none"),
     MkMod("weight", "increase_fixed", S5, <<>>, "none")>>,
   ManyMods}

\* the requests execute issues for a changeset, and those revert issues
ExecRequests(chs) ==
  {sl \in Slots(chs) :
     IF sl[2] = "product" THEN ExecProductLevel(ChangesOfProduct(chs, sl[1])) # <<>>
     ELSE ExecVariantLevel(ChangesOfProduct(chs, sl[1])) # <<>>}
RevertRequests(chs) ==
  {sl \in Slots(chs) :
     IF sl[2] = "product" THEN RevertProductLevel(ChangesOfProduct(chs, sl[1])) # <<>>
     ELSE RevertVariantLevel(ChangesOfProduct(chs, sl[1])) # <<>>}

\* the requests of revert the catalog cannot accept
RevertRefused(cat, chs) ==
  {sl \in RevertRequests(chs) :
     /\ sl[2] = "variants"
     /\ ~EntriesAcceptable(cat, sl[1],
                           RevertVariantEntries(RevertVariantLevel(ChangesOfProduct(chs, sl[1]))))}

FailureOutcomes == {"userErrors", "throw"}

\* the outcomes of all requests: those of `bad` fail, the others are accepted
OutcomesOf(chs, bad, fo) == [sl \in Slots(chs) |-> IF sl \in bad THEN fo[sl] ELSE "ok"]

\* a changeset confirmExecute has submitted for the selected products
ExecInit ==
  /\ xPre \in ExecCatalogs
  /\ \E ms \in ExecModLists : xChanges = ChangesToSubmit(LoadProducts(xPre), ms)
  /\ xChanges # <<>>
  /\ xPhase = "submitted"
  /\ xRun = NewRun(xPre)
  /\ xRev = NewRevert(xPre)
  /\ xFaults = 0
  /\ dbPriceHistory = <<>>
  /\ dbBulkEdit = <<>>

\* the execute action, from the grouping by product to the report
Execute ==
  /\ xPhase = "submitted"
  /\ \E G \in SUBSET ExecRequests(xChanges) :
       /\ Cardinality(G) <= MaxFailures - xFaults
       /\ \E fo \in [G -> FailureOutcomes] :
            xRun' = ExecAll(NewRun(xPre), xChanges, ProductOrder(xChanges),
                            OutcomesOf(xChanges, G, fo))
       /\ xFaults' = xFaults + Cardinality(G)
  /\ xPhase' = "executed"
  /\ dbPriceHistory' = dbPriceHistory \o xRun'.historyRecords
  /\ dbBulkEdit' = Append(dbBulkEdit, BulkEditRecord(xRun', xChanges))
  /\ UNCHANGED <<xPre, xChanges, xRev>>
  /\ UNCHANGED <<filterVars, calcVars, planVars, quotaVars, trailVars, matchVars, dbVars,
                 chainVars, wizVars>>

\* the revert action on lastChanges
Revert ==
  /\ xPhase = "executed"
  /\ LET refused == RevertRefused(xRun.cat, xChanges)
     IN \E G \in SUBSET (RevertRequests(xChanges) \ refused) :
          /\ Cardinality(G) <= MaxFailures - xFaults
          /\ \E fo \in [G \cup refused -> FailureOutcomes] :
               xRev' = RevertAll(NewRevert(xRun.cat), xChanges, ProductOrder(xChanges),
                                 OutcomesOf(xChanges, G \cup refused, fo))
          /\ xFaults' = xFaults + Cardinality(G)
  /\ xPhase' = "reverted"
  /\ UNCHANGED <<xPre, xChanges, xRun, auditVars>>
  /\ UNCHANGED <<filterVars, calcVars, planVars, quotaVars, trailVars, matchVars, dbVars,
                 chainVars, wizVars>>

ExecNext == Execute \/ Revert

\* the catalog's value of the field a change touches
TouchedValue(cat, c) ==
  LET p == CHOOSE q \in {cat[i] : i \in 1..Len(cat)} : q.id = c.productId
  IN IF c.variantId = 0 THEN p[c.field]
     ELSE (CHOOSE v \in {p.variants[k] : k \in 1..Len(p.variants)} :
             v.id = c.variantId)[c.field]

\* the same stored value: a blank price counts as 0 and a missing text as ""
StoredEqual(field, a, b) ==
  IF field \in {"price", "compareAtPrice"}
  THEN NumEq(ParseFloat(CurOrDefault(a, field)), ParseFloat(CurOrDefault(b, field)))
  ELSE IF field = "weight" THEN a = b
  ELSE IF field = "tags" THEN a = b
  ELSE OrEmpty(a) = OrEmpty(b)

\* C5: after a changeset was executed with zero errors and then reverted, no
\* request of either action having been failed from outside, every field the
\* changeset touched has the value it had before and revert reports errorCount 0
C5_RevertRestores ==
  (xPhase = "reverted" /\ xRun.errorCount = 0 /\ xFaults = 0) =>
    /\ \A i \in 1..Len(xChanges) :
         StoredEqual(xChanges[i].field, TouchedValue(xRev.cat, xChanges[i]),
                     TouchedValue(xPre, xChanges[i]))
    /\ xRev.errorCount = 0

\* a price changeset executed and reverted with every request accepted
C5_PriceReverted ==
  /\ xPhase = "reverted" /\ xRun.errorCount = 0 /\ xFaults = 0
  /\ \E i \in 1..Len(xChanges) :
       /\ xChanges[i].field = "price"
       /\ TouchedValue(xRun.cat, xChanges[i]) # TouchedValue(xPre, xChanges[i])
       /\ TouchedValue(xRev.cat, xChanges[i]) = TouchedValue(xPre, xChanges[i])

\* the changes of a product, and those of one of its two requests
NChanges(pid) == Cardinality({i \in 1..Len(xChanges) : xChanges[i].productId = pid})
ChangesAt(pid, kind) ==
  Cardinality({i \in 1..Len(xChanges) :
                 /\ xChanges[i].productId = pid
                 /\ FieldLevel(xChanges[i].field) = IF kind = "product" THEN "product"
                                                     ELSE "variant"})

FailedEntries(log) == SelectSeq(log, LAMBDA e : e.outcome # "ok")

\* what the failed requests of a log add to errorCount
RECURSIVE ErrorsOwed(_)
ErrorsOwed(log) ==
  IF log = <<>> THEN 0
  ELSE ErrorsOwed(Tail(log))
       + (CASE Head(log).outcome = "userErrors" ->
                 ChangesAt(Head(log).productId, Head(log).kind)
            [] Head(log).outcome = "throw" -> NChanges(Head(log).productId)
            [] OTHER -> 0)

ChangedProducts == {xChanges[i].productId : i \in 1..Len(xChanges)}
IssuedFor(pid, kind) ==
  \E k \in 1..Len(xRun.log) : xRun.log[k].productId = pid /\ xRun.log[k].kind = kind

---------------------------------------------------------------------------
(* The monthly quota.  The ShopPlan row of one shop, the calendar month, and
   the requests of that shop to the bulk-edit route; every await of the
   execute action is a point where another request can run.  `applied` counts,
   per month, the execute invocations that went on to mutate the catalog. *)

MaxRequests == 2
MaxMonths == 1
MaxChanges == 2

\* PLAN_LIMITS = { free: 3, pro: 50, plus: Infinity }
FreeLimit == 3
ProLimit == 50
Finite(n) == [inf |-> FALSE, n |-> n]
Infinity == [inf |-> TRUE, n |-> 0]

\* PLAN_LIMITS[plan] || 3
EditsLimit(plan) ==
  CASE plan = "free" -> Finite(FreeLimit)
    [] plan = "pro" -> Finite(ProLimit)
    [] plan = "plus" -> Infinity
    [] OTHER -> Finite(FreeLimit)

\* a check that lets the request through when the counter equals the limit
LimitReachedStrict(sp) ==
  ~EditsLimit(sp.plan).inf /\ sp.monthlyEdits > EditsLimit(sp.plan).n

\* editsLimit !== Infinity && shopPlan.monthlyEdits >= editsLimit
LimitReached(sp) ==
  ~EditsLimit(sp.plan).inf /\ sp.monthlyEdits >= EditsLimit(sp.plan).n

Requests == 1..MaxRequests
Months == 0..MaxMonths
IdleRequest == [intent |-> "none", pc |-> "idle", n |-> 0]

\* the usage a shop can have reached in the running month
PlanStates ==
  {[plan |-> "free", monthlyEdits |-> e, monthlyEditReset |-> 0] : e \in 0..FreeLimit}
  \cup {[plan |-> "pro", monthlyEdits |-> e, monthlyEditReset |-> 0] :
          e \in {0, ProLimit - 1, ProLimit}}
  \cup {[plan |-> "plus", monthlyEdits |-> e, monthlyEditReset |-> 0] : e \in {0, ProLimit}}

QuotaInit ==
  /\ shopPlan \in PlanStates
  /\ now = 0
  /\ reqs = [r \in Requests |-> IdleRequest]
  /\ applied = [m \in Months |-> IF m = 0 THEN shopPlan.monthlyEdits ELSE 0]
  /\ catalogWrites = 0
  /\ bulkEdits = 0
  /\ priceHistory = 0
  /\ rejected = {}

\* the calendar month changes
Tick ==
  /\ now < MaxMonths
  /\ now' = now + 1
  /\ UNCHANGED <<shopPlan, reqs, applied, catalogWrites, bulkEdits, priceHistory, rejected>>
  /\ UNCHANGED <<filterVars, calcVars, planVars, execVars, auditVars, trailVars, matchVars, dbVars,
                 chainVars, wizVars>>

\* the loaders of the bulk-edit, billing and dashboard pages: the counter is
\* reset when the month of monthlyEditReset is not the current month
LoaderReset ==
  /\ now # shopPlan.monthlyEditReset
  /\ shopPlan' = [shopPlan EXCEPT !.monthlyEdits = 0, !.monthlyEditReset = now]
  /\ UNCHANGED <<now, reqs, applied, catalogWrites, bulkEdits, priceHistory, rejected>>
  /\ UNCHANGED <<filterVars, calcVars, planVars, execVars, auditVars, trailVars, matchVars, dbVars,
                 chainVars, wizVars>>

\* execute, up to the quota check: the row is read and compared
ExecuteCheck ==
  \E r \in Requests, n \in 1..MaxChanges :
    /\ reqs[r].pc = "idle"
    /\ IF LimitReached(shopPlan)
       THEN /\ reqs' = [reqs EXCEPT ![r] = [intent |-> "execute", pc |-> "rejected", n |-> n]]
            /\ rejected' = rejected \cup
                             {[plan |-> shopPlan.plan, monthlyEdits |-> shopPlan.monthlyEdits,
                               monthlyEditReset |-> shopPlan.monthlyEditReset, month |-> now]}
       ELSE /\ reqs' = [reqs EXCEPT ![r] = [intent |-> "execute", pc |-> "checked", n |-> n]]
            /\ UNCHANGED rejected
    /\ UNCHANGED <<shopPlan, now, applied, catalogWrites, bulkEdits, priceHistory>>
    /\ UNCHANGED <<filterVars, calcVars, planVars, execVars, auditVars, trailVars, matchVars, dbVars,
                 chainVars, wizVars>>

\* execute, the loop over the products: the catalog mutations are issued
ExecuteMutate ==
  \E r \in Requests :
    /\ reqs[r].pc = "checked"
    /\ reqs' = [reqs EXCEPT ![r].pc = "mutated"]
    /\ catalogWrites' = catalogWrites + 1
    /\ applied' = [applied EXCEPT ![now] = @ + 1]
    /\ UNCHANGED <<shopPlan, now, bulkEdits, priceHistory, rejected>>
    /\ UNCHANGED <<filterVars, calcVars, planVars, execVars, auditVars, trailVars, matchVars, dbVars,
                 chainVars, wizVars>>

\* an execute that adds the number of changes to the counter
ExecuteRecordPerChange ==
  \E r \in Requests : \E ok \in {0, reqs[r].n} :
    /\ reqs[r].pc = "mutated"
    /\ reqs' = [reqs EXCEPT ![r].pc = "done"]
    /\ priceHistory' = priceHistory + ok
    /\ bulkEdits' = bulkEdits + 1
    /\ shopPlan' = [shopPlan EXCEPT !.monthlyEdits = @ + reqs[r].n]
    /\ UNCHANGED <<now, applied, catalogWrites, rejected>>
    /\ UNCHANGED <<filterVars, calcVars, planVars, execVars, auditVars, trailVars, matchVars, dbVars,
                 chainVars, wizVars>>

\* execute, after the loop: the PriceHistory rows of the successful changes
\* (here none or all of the changes), the BulkEdit row, and
\* monthlyEdits: { increment: 1 }
ExecuteRecord ==
  \E r \in Requests : \E ok \in {0, reqs[r].n} :
    /\ reqs[r].pc = "mutated"
    /\ reqs' = [reqs EXCEPT ![r].pc = "done"]
    /\ priceHistory' = priceHistory + ok
    /\ bulkEdits' = bulkEdits + 1
    /\ shopPlan' = [shopPlan EXCEPT !.monthlyEdits = @ + 1]
    /\ UNCHANGED <<now, applied, catalogWrites, rejected>>
    /\ UNCHANGED <<filterVars, calcVars, planVars, execVars, auditVars, trailVars, matchVars, dbVars,
                 chainVars, wizVars>>

\* the revert action: catalog mutations only
RevertRequest ==
  \E r \in Requests :
    /\ reqs[r].pc = "idle"
    /\ reqs' = [reqs EXCEPT ![r] = [intent |-> "revert", pc |-> "done", n |-> 0]]
    /\ catalogWrites' = catalogWrites + 1
    /\ UNCHANGED <<shopPlan, now, applied, bulkEdits, priceHistory, rejected>>
    /\ UNCHANGED <<filterVars, calcVars, planVars, execVars, auditVars, trailVars, matchVars, dbVars,
                 chainVars, wizVars>>

QuotaNext ==
  Tick \/ LoaderReset \/ ExecuteCheck \/ ExecuteMutate \/ ExecuteRecord \/ RevertRequest

\* request r passes the quota check of execute in this step
ChecksQuota(r) ==
  reqs[r].pc = "idle" /\ reqs'[r].pc # "idle" /\ reqs'[r].intent = "execute"

\* C7: an execute request checked while a free shop has monthlyEdits >= 3, or
\* a pro shop monthlyEdits >= 50, returns limitReached with no catalog
\* mutation, no BulkEdit or PriceHistory row and monthlyEdits as it was, and
\* takes no further step; a request of a plus shop is never rejected
C7_QuotaShortCircuit ==
  [][\A r \in Requests :
       /\ ChecksQuota(r) =>
            /\ (\/ shopPlan.plan = "free" /\ shopPlan.monthlyEdits >= 3
                \/ shopPlan.plan = "pro" /\ shopPlan.monthlyEdits >= 50)
               => /\ reqs'[r].pc = "rejected"
                  /\ UNCHANGED <<shopPlan, catalogWrites, bulkEdits, priceHistory, applied>>
            /\ shopPlan.plan = "plus" => reqs'[r].pc # "rejected"
       /\ reqs[r].pc = "rejected" => reqs'[r] = reqs[r]]_vars

\* a free shop that has reached 3 edits by an execute of this month has its
\* next request rejected
C7_RejectedAtLimit ==
  /\ shopPlan = [plan |-> "free", monthlyEdits |-> 3, monthlyEditReset |-> 0]
  /\ now = 0
  /\ \E r \in Requests : reqs[r].intent = "execute" /\ reqs[r].pc = "done"
  /\ \E r \in Requests : reqs[r].pc = "rejected"
  /\ catalogWrites = 1 /\ bulkEdits = 1

\* C8: in no month does a free shop have more than 3, or a pro shop more than
\* 50, execute invocations that apply changes
C8_MonthlyLimitHeld ==
  \A m \in Months :
    /\ shopPlan.plan = "free" => applied[m] <= 3
    /\ shopPlan.plan = "pro" => applied[m] <= 50

\* two execute requests are past the quota check at the same time
C8_TwoInFlight ==
  \E r, q \in Requests : r # q /\ reqs[r].pc = "checked" /\ reqs[q].pc = "checked"

\* C9: the step in which an execute invocation completes adds exactly 1 to
\* monthlyEdits, whatever the number of its changes and of those that
\* succeeded; no other step of an execute or revert request changes the row
C9_OneIncrementPerExecute ==
  [][\A r \in Requests :
       reqs'[r] # reqs[r] =>
         IF reqs[r].pc = "mutated" /\ reqs'[r].pc = "done"
         THEN /\ shopPlan'.monthlyEdits = shopPlan.monthlyEdits + 1
              /\ shopPlan'.plan = shopPlan.plan
              /\ shopPlan'.monthlyEditReset = shopPlan.monthlyEditReset
         ELSE shopPlan' = shopPlan]_vars

\* an execute with two changes and a revert have completed from a fresh row
C9_ExecuteAndRevertDone ==
  /\ \E r \in Requests : reqs[r] = [intent |-> "execute", pc |-> "done", n |-> 2]
  /\ \E r \in Requests : reqs[r].intent = "revert" /\ reqs[r].pc = "done"
  /\ \A r \in Requests : reqs[r].pc \in {"idle", "done"}
  /\ shopPlan = [plan |-> "free", monthlyEdits |-> 1, monthlyEditReset |-> 0]
  /\ now = 0 /\ applied[0] = 1

\* C10: no execute request is rejected in a month other than the month of
\* monthlyEditReset, that is, on the usage of an earlier month
C10_NoStaleRejection ==
  \A x \in rejected : x.month = x.monthlyEditReset

---------------------------------------------------------------------------
(* Every entry point that writes to the catalog, with the PriceHistory rows it
   leaves: bulk-edit execute and revert, the Products page's inline price
   update, the products/update webhook's rule loop, and the History page's
   revert_single.  aLog records what the catalog accepted. *)

MaxOps == 2

\* the columns of PriceHistory the model carries, and those a row must give
PriceHistoryColumns ==
  {"productId", "variantId", "oldPrice", "newPrice", "changeType", "changeSource"}
PriceHistoryRequired == {"productId", "variantId", "oldPrice", "newPrice"}

\* prisma.priceHistory.create({ data }): a row that names an unknown column or
\* lacks a required one is rejected with an exception
RowAccepted(data) ==
  /\ DOMAIN data \subseteq PriceHistoryColumns
  /\ PriceHistoryRequired \subseteq DOMAIN data
PriceHistoryCreate(table, data) == IF RowAccepted(data) THEN Append(table, data) ELSE table

\* one accepted write of a field, as the catalog saw it
Event(kind, source, c) ==
  [kind |-> kind, source |-> source, productId |-> c.productId,
   variantId |-> c.variantId, field |-> c.field, old |-> c.oldValue, new |-> c.newValue]

\* the changes of a changeset whose request the catalog accepted
AcceptedChanges(log, chs, productLevel) ==
  SelectSeq(chs, LAMBDA c :
    \E k \in 1..Len(log) :
      /\ log[k].productId = c.productId
      /\ log[k].outcome = "ok"
      /\ log[k].kind = (IF c.field \in productLevel THEN "product" ELSE "variants"))

Events(kind, source, cs) == [k \in 1..Len(cs) |-> Event(kind, source, cs[k])]

\* the webhook's accessor of a variant field (part_005 lines 89-92)
HookAccessor(v, field) ==
  CASE field = "price" -> v.price
    [] field = "compareAtPrice" -> v.compareAtPrice
    [] field = "sku" -> OrEmpty(v.sku)
    [] field = "barcode" -> OrEmpty(v.barcode)
    [] OTHER -> Null

\* newValue.split(",").map(t => t.trim()) (part_005 line 132)
HookSplitTags(nv) ==
  LET parts == Split(nv, Comma) IN [i \in 1..Len(parts) |-> Trim(parts[i])]

\* productInput of applyModifications (part_005 lines 125-134)
RECURSIVE HookProductInput(_, _)
HookProductInput(product, actions) ==
  IF actions = <<>> THEN NoFields
  ELSE LET mod == actions[Len(actions)]
           init == HookProductInput(product, SubSeq(actions, 1, Len(actions) - 1))
       IN IF mod.field \notin HookEditableFields THEN init
          ELSE IF FieldLevel(mod.field) # "product" THEN init
          ELSE LET cur == IF mod.field = "tags" THEN Join(product.tags, CommaSpace)
                          ELSE OrEmpty(product[mod.field])
                   nv == HookCalcValue(cur, mod)
               IN IF nv = Null THEN init
                  ELSE (mod.field :> (IF mod.field = "tags" THEN HookSplitTags(nv) ELSE nv))
                       @@ init

\* the fields applyModifications sets on one variant (part_005 lines 135-143)
RECURSIVE HookVariantSet(_, _)
HookVariantSet(variant, actions) ==
  IF actions = <<>> THEN NoFields
  ELSE LET mod == actions[Len(actions)]
           init == HookVariantSet(variant, SubSeq(actions, 1, Len(actions) - 1))
       IN IF mod.field \notin HookEditableFields THEN init
          ELSE IF FieldLevel(mod.field) # "variant" THEN init
          ELSE LET nv == HookCalcValue(HookAccessor(variant, mod.field), mod)
               IN IF nv = Null THEN init ELSE (mod.field :> nv) @@ init

\* variantUpdates of applyModifications
HookVariantUpdates(product, actions) ==
  LET all == [i \in 1..Len(product.variants) |->
                [id |-> product.variants[i].id,
                 set |-> HookVariantSet(product.variants[i], actions)]]
  IN SelectSeq(all, LAMBDA e : e.set # NoFields)

\* what the webhook's writes changed: one event per field whose value differs
HookProductEvents(product, input) ==
  LET fs == {f \in DOMAIN input : f # "tags" /\ input[f] # OrEmpty(product[f])}
      Ev(f) == [kind |-> "applied", source |-> "automation", productId |-> product.id,
                variantId |-> 0, field |-> f, old |-> OrEmpty(product[f]), new |-> input[f]]
      Seq4 == <<"title", "vendor", "productType", "status">>
  IN Concat([i \in 1..4 |-> IF Seq4[i] \in fs THEN <<Ev(Seq4[i])>> ELSE <<>>])
     \o (IF "tags" \in DOMAIN input /\ input["tags"] # product.tags
         THEN <<[kind |-> "applied", source |-> "automation", productId |-> product.id,
                 variantId |-> 0, field |-> "tags",
                 old |-> Join(product.tags, CommaSpace),
                 new |-> Join(input["tags"], CommaSpace)]>>
         ELSE <<>>)
HookVariantEvents(product, updates) ==
  LET Seq4 == <<"price", "compareAtPrice", "sku", "barcode">>
      VarOf(id) == CHOOSE v \in {product.variants[i] : i \in 1..Len(product.variants)} :
                     v.id = id
      Ev(e, f) == [kind |-> "applied", source |-> "automation", productId |-> product.id,
                   variantId |-> e.id, field |-> f, old |-> VarOf(e.id)[f], new |-> e.set[f]]
  IN Concat([k \in 1..Len(updates) |->
       Concat([i \in 1..4 |->
         IF Seq4[i] \in DOMAIN updates[k].set
            /\ updates[k].set[Seq4[i]] # VarOf(updates[k].id)[Seq4[i]]
         THEN <<Ev(updates[k], Seq4[i])>> ELSE <<>>])])

\* the data of the webhook's priceHistory.create (part_005 lines 49-53)
HookHistoryData(product, actions) ==
  [shop |-> "shop", editName |-> "Auto", productsAffected |-> 1,
   changesApplied |-> Len(actions), status |-> "completed", changes |-> product.id]

\* the data of revert_single's priceHistory.create (part_005 lines 265-277)
RevertSingleData(row) ==
  [productId |-> row.productId, variantId |-> row.variantId, oldPrice |-> row.newPrice,
   newPrice |-> row.oldPrice, changeType |-> "revert", changeSource |-> "manual_revert"]

AuditCatalogs ==
  {<<MkProduct(1, <<VariantA>>)>>,
   <<MkProduct(1, <<VariantB, VariantC>>), MkProduct(2, <<VariantA>>)>>}

AuditModLists ==
  {<<MkMod("price", "exact", S1000, <<>>, "none")>>,
   <<MkMod("title", "set", <<"B">>, <<>>, "none"),
     MkMod("sku", "append", <<"a">>, <<>>, "none")>>,
   <<MkMod("tags", "add", <<"x">>, <<>>, "none")>>,
   <<MkMod("compareAtPrice", "exact", S1000, <<>>, "none")>>}

\* the conditions of the automation rules of the shop
AuditConditions ==
  {<<>>,
   <<[field |-> "price", operator |-> "greater_than", value |-> S20, value2 |-> <<>>]>>}

AuditPrices == {S5, S2000}

AuditInit ==
  /\ aCat \in AuditCatalogs
  /\ aLog = <<>>
  /\ aLast = <<>>
  /\ aOps = 0
  /\ dbPriceHistory = <<>>
  /\ dbBulkEdit = <<>>

\* bulk-edit execute (part_004 lines 140-305) of a changeset planned on the catalog
AuditExecute ==
  /\ aOps < MaxOps
  /\ \E ms \in AuditModLists :
     \E chs \in {ChangesToSubmit(LoadProducts(aCat), ms)} :
          /\ chs # <<>>
          /\ \E G \in SUBSET ExecRequests(chs) :
               /\ Cardinality(G) <= 1
               /\ \E fo \in [G -> FailureOutcomes] :
                  \E run \in {ExecAll(NewRun(aCat), chs, ProductOrder(chs),
                                      OutcomesOf(chs, G, fo))} :
                       /\ aCat' = run.cat
                       /\ dbPriceHistory' = dbPriceHistory \o run.historyRecords
                       /\ dbBulkEdit' = Append(dbBulkEdit, BulkEditRecord(run, chs))
                       /\ aLog' = aLog \o Events("applied", "bulk_edit",
                                    AcceptedChanges(run.log, chs, ExecProductLevelFields))
                       /\ aLast' = chs
  /\ aOps' = aOps + 1
  /\ UNCHANGED <<filterVars, calcVars, planVars, execVars, quotaVars, matchVars, dbVars,
                 chainVars, wizVars>>

\* bulk-edit revert (part_004 lines 307-361) of lastChanges
AuditRevert ==
  /\ aOps < MaxOps
  /\ aLast # <<>>
  /\ LET refused == RevertRefused(aCat, aLast)
     IN \E G \in SUBSET (RevertRequests(aLast) \ refused) :
          /\ Cardinality(G) <= 1
          /\ \E fo \in [G \cup refused -> FailureOutcomes] :
               LET rev == RevertAll(NewRevert(aCat), aLast, ProductOrder(aLast),
                                    OutcomesOf(aLast, G \cup refused, fo))
               IN /\ aCat' = rev.cat
                  /\ aLog' = aLog \o Events("reverted", "bulk_edit",
                               AcceptedChanges(rev.log, aLast, RevertProductLevelFields))
  /\ aLast' = <<>>
  /\ aOps' = aOps + 1
  /\ UNCHANGED <<dbPriceHistory, dbBulkEdit>>
  /\ UNCHANGED <<filterVars, calcVars, planVars, execVars, quotaVars, matchVars, dbVars,
                 chainVars, wizVars>>

\* the Products page's update_price (app.products.jsx lines 131-154)
UpdatePrice ==
  /\ aOps < MaxOps
  /\ \E i \in 1..Len(aCat) : \E k \in 1..Len(aCat[i].variants) :
     \E newPrice \in AuditPrices : \E o \in Outcomes :
       LET v == aCat[i].variants[k]
           entries == <<[id |-> v.id, set |-> "price" :> newPrice]>>
       IN IF o = "ok"
          THEN /\ aCat' = CatalogVariantsUpdate(aCat, aCat[i].id, entries)
               /\ aLog' = IF v.price = newPrice THEN aLog
                          ELSE Append(aLog,
                                 [kind |-> "applied", source |-> "manual",
                                  productId |-> aCat[i].id, variantId |-> v.id,
                                  field |-> "price", old |-> v.price, new |-> newPrice])
          ELSE UNCHANGED <<aCat, aLog>>
  /\ aOps' = aOps + 1
  /\ UNCHANGED <<aLast, dbPriceHistory, dbBulkEdit>>
  /\ UNCHANGED <<filterVars, calcVars, planVars, execVars, quotaVars, matchVars, dbVars,
                 chainVars, wizVars>>

\* one pass of the webhook's rule loop (part_005 lines 39-54) for a rule of a
\* shop on the plus plan; o1 and o2 are the catalog's outcomes
HookRule ==
  /\ aOps < MaxOps
  /\ \E i \in 1..Len(aCat) : \E conditions \in AuditConditions :
     \E actions \in AuditModLists : \E o1 \in Outcomes, o2 \in Outcomes :
     \E product \in {HookProduct(aCat[i])} :
     \E input \in {HookProductInput(product, actions)} :
     \E updates \in {HookVariantUpdates(product, actions)} :
       LET matches == \A c \in 1..Len(conditions) : HookEvaluateFilter(product, conditions[c])
           sent1 == DOMAIN input # {}
           sent2 == updates # <<>>
           threw1 == sent1 /\ o1 = "throw"
           threw2 == sent2 /\ o2 = "throw"
           cat1 == IF sent1 /\ o1 = "ok"
                   THEN CatalogProductUpdate(aCat, product.id, input) ELSE aCat
           cat2 == IF sent2 /\ o2 = "ok" /\ ~threw1
                   THEN CatalogVariantsUpdate(cat1, product.id, updates) ELSE cat1
           ev1 == IF sent1 /\ o1 = "ok" THEN HookProductEvents(product, input) ELSE <<>>
           ev2 == IF sent2 /\ o2 = "ok" /\ ~threw1
                  THEN HookVariantEvents(product, updates) ELSE <<>>
       IN /\ matches
          /\ aCat' = cat2
          /\ aLog' = aLog \o ev1 \o ev2
          /\ dbPriceHistory' =
               IF threw1 \/ threw2 THEN dbPriceHistory
               ELSE PriceHistoryCreate(dbPriceHistory, HookHistoryData(product, actions))
  /\ aOps' = aOps + 1
  /\ UNCHANGED <<aLast, dbBulkEdit>>
  /\ UNCHANGED <<filterVars, calcVars, planVars, execVars, quotaVars, matchVars, dbVars,
                 chainVars, wizVars>>

\* the catalog takes revert_single's entry {id: variantId, price: oldPrice} when
\* the id names a variant (the variantId of a row of a product-level change is
\* the product's id, which names none) and the price is a number
RevertSingleAcceptable(cat, row) ==
  /\ row.changeType \notin ExecProductLevelFields
  /\ EntriesAcceptable(cat, row.productId, <<[id |-> row.variantId, set |-> NoFields]>>)
  /\ ParseFloat(row.oldPrice).t = "num"

\* the History page's revert_single (part_005 lines 240-283) on a row that is
\* not itself a manual revert
RevertSingle ==
  /\ aOps < MaxOps
  /\ \E r \in 1..Len(dbPriceHistory) : \E o \in Outcomes :
       LET row == dbPriceHistory[r]
           entries == <<[id |-> row.variantId, set |-> "price" :> row.oldPrice]>>
           ok == o = "ok" /\ RevertSingleAcceptable(aCat, row)
       IN /\ row.changeSource # "manual_revert"
          /\ IF ok
             THEN /\ aCat' = CatalogVariantsUpdate(aCat, row.productId, entries)
                  /\ dbPriceHistory' = PriceHistoryCreate(dbPriceHistory, RevertSingleData(row))
                  /\ aLog' = Append(aLog,
                       [kind |-> "reverted", source |-> "manual_revert",
                        productId |-> row.productId, variantId |-> row.variantId,
                        field |-> row.changeType, old |-> row.newPrice, new |-> row.oldPrice])
             ELSE UNCHANGED <<aCat, dbPriceHistory, aLog>>
  /\ aOps' = aOps + 1
  /\ UNCHANGED <<aLast, dbBulkEdit>>
  /\ UNCHANGED <<filterVars, calcVars, planVars, execVars, quotaVars, matchVars, dbVars,
                 chainVars, wizVars>>

AuditNext == AuditExecute \/ AuditRevert \/ UpdatePrice \/ HookRule \/ RevertSingle

\* the PriceHistory row that records an event
Records(row, e) ==
  /\ row.productId = e.productId
  /\ row.variantId = (IF e.variantId = 0 THEN e.productId ELSE e.variantId)
  /\ row.oldPrice = e.old
  /\ row.newPrice = e.new

AppliedEvents == SelectSeq(aLog, LAMBDA e : e.kind = "applied")
RevertedEvents == SelectSeq(aLog, LAMBDA e : e.kind = "reverted")
RevertRows == SelectSeq(dbPriceHistory, LAMBDA row : row.changeType = "revert")

\* C12: every field change the app applied to the catalog, by execute, by the
\* Products page's price update or by an automation rule, has a PriceHistory
\* row for that product/variant with the old and the new value; and every row
\* of a bulk edit stands for a change the catalog accepted.
C12_AppliedIsRecorded ==
  /\ \A k \in 1..Len(AppliedEvents) :
       \E r \in 1..Len(dbPriceHistory) : Records(dbPriceHistory[r], AppliedEvents[k])
  /\ \A r \in 1..Len(dbPriceHistory) :
       dbPriceHistory[r].changeSource = "bulk_edit" =>
         \E k \in 1..Len(AppliedEvents) : Records(dbPriceHistory[r], AppliedEvents[k])

\* an inline price update and an automation rule have changed the catalog
C12_ManualAndAutomation ==
  /\ \E k \in 1..Len(aLog) : aLog[k].kind = "applied" /\ aLog[k].source = "manual"
  /\ \E k \in 1..Len(aLog) : aLog[k].kind = "applied" /\ aLog[k].source = "automation"

\* C13: every reverted change, of the whole-batch undo as of revert_single,
\* has produced one PriceHistory row tagged as a revert.
C13_RevertIsRecorded == Len(RevertRows) = Len(RevertedEvents)

\* a batch has been executed and then undone as a whole
C13_BatchUndone ==
  /\ aOps = 2
  /\ \E k \in 1..Len(aLog) : aLog[k].kind = "reverted" /\ aLog[k].source = "bulk_edit"

---------------------------------------------------------------------------
(* Rule sets: the wizard's filtered list, the automation page's preview of
   a rule's conditions, and the webhook's matching of a rule's conditions *)

MaxRules == 2

\* the wizard's filtered list keeps a product (part_004 lines 660-667)
FilteredKeeps(product, rules) ==
  \A i \in 1..Len(rules) : BulkEvaluateFilter(product, rules[i])

\* the automation page's evaluateFilter (app.automations.jsx lines 631-646),
\* the same text as the webhook's, on the product the page loaded
AutoEvaluateFilter(product, rule) == HookEvaluateFilter(product, rule)

\* the preview leaves a rule out (app.automations.jsx line 804)
PreviewSkips(rule) ==
  ~Truthy(rule.value) /\ rule.operator \notin {"is_empty", "is_not_empty"}

\* a preview that evaluates every rule
PreviewKeepsStrict(product, rules) ==
  \A i \in 1..Len(rules) : AutoEvaluateFilter(product, rules[i])

\* matchedProducts keeps a product (app.automations.jsx lines 800-809)
PreviewKeeps(product, rules) ==
  \/ Len(rules) = 0
  \/ \A i \in 1..Len(rules) :
       PreviewSkips(rules[i]) \/ AutoEvaluateFilter(product, rules[i])

\* the webhook's rule loop matches a rule's conditions (part_005 line 43)
WebhookMatches(product, conditions) ==
  \A i \in 1..Len(conditions) : HookEvaluateFilter(product, conditions[i])

MkRule(f, o, v) == [field |-> f, operator |-> o, value |-> v, value2 |-> <<>>]
MatchRules ==
  {MkRule("title", "contains", <<"a">>), MkRule("title", "equals", <<>>),
   MkRule("price", "greater_than", S20), MkRule("price", "less_than", <<>>),
   MkRule("sku", "is_empty", <<>>), MkRule("tags", "contains", <<"x">>)}
MatchRuleSets == UNION {[1..n -> MatchRules] : n \in 0..MaxRules}

MatchInit ==
  /\ mProduct \in {MkProduct(1, vs) : vs \in VariantLists}
  /\ mRules \in MatchRuleSets
  /\ mDone = {}
  /\ mPass = [filtered |-> FALSE, preview |-> FALSE, webhook |-> FALSE]

MatchFiltered ==
  /\ "filtered" \notin mDone
  /\ mPass' = [mPass EXCEPT !.filtered = FilteredKeeps(LoadProduct(mProduct), mRules)]
  /\ mDone' = mDone \cup {"filtered"}
  /\ UNCHANGED <<mProduct, mRules>>
  /\ UNCHANGED <<filterVars, calcVars, planVars, execVars, quotaVars, auditVars, trailVars, dbVars,
                 chainVars, wizVars>>

MatchPreview ==
  /\ "preview" \notin mDone
  /\ mPass' = [mPass EXCEPT !.preview = PreviewKeeps(LoadProduct(mProduct), mRules)]
  /\ mDone' = mDone \cup {"preview"}
  /\ UNCHANGED <<mProduct, mRules>>
  /\ UNCHANGED <<filterVars, calcVars, planVars, execVars, quotaVars, auditVars, trailVars, dbVars,
                 chainVars, wizVars>>

MatchWebhook ==
  /\ "webhook" \notin mDone
  /\ mPass' = [mPass EXCEPT !.webhook = WebhookMatches(HookProduct(mProduct), mRules)]
  /\ mDone' = mDone \cup {"webhook"}
  /\ UNCHANGED <<mProduct, mRules>>
  /\ UNCHANGED <<filterVars, calcVars, planVars, execVars, quotaVars, auditVars, trailVars, dbVars,
                 chainVars, wizVars>>

MatchNext == MatchFiltered \/ MatchPreview \/ MatchWebhook

\* C14: at each of the three call sites a product passes the rule set if and
\* only if it satisfies every rule of the set under that site's evaluator;
\* in particular the empty rule set passes every product.
C14_AndSemantics ==
  /\ "filtered" \in mDone =>
       (mPass.filtered <=>
          \A i \in 1..Len(mRules) : BulkEvaluateFilter(LoadProduct(mProduct), mRules[i]))
  /\ "preview" \in mDone =>
       (mPass.preview <=>
          \A i \in 1..Len(mRules) : AutoEvaluateFilter(LoadProduct(mProduct), mRules[i]))
  /\ "webhook" \in mDone =>
       (mPass.webhook <=>
          \A i \in 1..Len(mRules) : HookEvaluateFilter(HookProduct(mProduct), mRules[i]))

\* the preview shows a product that the webhook, given the same conditions,
\* does not match
C14_PreviewShowsUnmatched ==
  /\ mDone = {"filtered", "preview", "webhook"}
  /\ Len(mRules) = 2
  /\ mPass.preview
  /\ ~mPass.webhook

---------------------------------------------------------------------------
(* Price rounding and tag removal of the two value transformers *)

\* the current value and the amount of a price modification, as numbers
PriceCurrent == ParseFloat(IF Truthy(cCur) THEN cCur ELSE <<"0">>)
PriceAmount == ParseFloat(cMod.value)
PriceCase ==
  /\ cMod.field \in {"price", "compareAtPrice"}
  /\ cMod.type \in NumericTypes
  /\ PriceCurrent.t = "num"
  /\ PriceAmount.t = "num"

\* the price the claim describes, in cents: the arithmetic, then the rounding
\* mode, then the clamp at 0
ExpectedCents ==
  LET r == Arith(cMod.type, PriceCurrent, PriceAmount).n
      whole == r \div Fine
      cents == CASE cMod.rounding = "99" -> whole * 100 + 99
                 [] cMod.rounding = "95" -> whole * 100 + 95
                 [] cMod.rounding = "whole" -> ((r + Fine \div 2) \div Fine) * 100
                 [] OTHER -> (r + Fine \div 200) \div (Fine \div 100)
  IN IF cents < 0 THEN 0 ELSE cents
ExpectedPrice ==
  NatToChars(ExpectedCents \div 100) \o <<".">> \o PadDigits(ExpectedCents % 100, 2)

TagsCase == cMod.field = "tags" /\ cMod.type = "remove"
ExpectedTags ==
  LET listed == ParseTags(OrEmpty(cMod.value))
      kept == SelectSeq(ParseTags(OrEmpty(cCur)),
                LAMBDA t : \A i \in 1..Len(listed) : ToLower(listed[i]) # ToLower(t))
  IN Join(kept, CommaSpace)

\* C16: at both call sites a tags modification of type remove returns exactly
\* the current tags that are not equal, ignoring case, to a tag listed in the
\* modification's value ('sale, clearance' with remove 'Sale' gives
\* 'clearance').
C16_RemoveIgnoresCase ==
  TagsCase =>
    /\ "bulk" \in cDone => cBulk = ExpectedTags
    /\ "hook" \in cDone => cHook = ExpectedTags

\* the tag 's' removed by 'S' in the wizard and kept by the webhook
C16_UpperCaseRemoval ==
  /\ cDone = {"bulk", "hook"}
  /\ cCur = <<"s", ",", " ", "b">>
  /\ cMod = MkMod("tags", "remove", <<"S">>, <<>>, "none")
  /\ cBulk = <<"b">>
  /\ cHook = cCur

---------------------------------------------------------------------------
(* The app's tables, per shop, and the requests that are gated on the plan *)

MaxDbOps == 3
MaxTime == 2

Shops == {"s1", "s2"}
NoRow == [plan |-> "<none>", trialUsed |-> FALSE]
PlanRow(p) == [plan |-> p, trialUsed |-> FALSE]

\* a gate that lets every paid plan through
PlusGatePaid(shop) ==
  dbShopPlan[shop] # NoRow /\ dbShopPlan[shop].plan \in {"pro", "plus"}

\* !shopPlan || shopPlan.plan !== "plus" does not hold
PlusGate(shop) ==
  dbShopPlan[shop] # NoRow /\ dbShopPlan[shop].plan = "plus"

RowsOf(table, shop) == {row \in table : row.shop = shop}
NextId == dOps + 1

RuleRow(id, shop, enabled) == [id |-> id, shop |-> shop, enabled |-> enabled, runCount |-> 0]
ScheduledRow(id, shop, when) ==
  [id |-> id, shop |-> shop, status |-> "pending", scheduledFor |-> when, executedAt |-> 0]

Request(shop, intent) == [shop |-> shop, intent |-> intent, arg |-> "", ok |-> TRUE]

\* the products/update webhook (part_005 lines 4-57): M are the enabled rules
\* of the shop whose conditions match and whose requests the catalog takes
Webhook(shop) ==
  /\ dOps < MaxDbOps
  /\ dReq' = Request(shop, "webhook")
  /\ IF ~PlusGate(shop)
     THEN UNCHANGED <<dbRules, hookWrites>>
     ELSE \E M \in SUBSET {r \in RowsOf(dbRules, shop) : r.enabled} :
            /\ dbRules' = (dbRules \ M) \cup {[r EXCEPT !.runCount = @ + 1] : r \in M}
            /\ hookWrites' = [hookWrites EXCEPT ![shop] = @ + Cardinality(M)]
  /\ dOps' = dOps + 1
  /\ UNCHANGED <<dbShopPlan, dbScheduled, dbSaved, sNow, gResp, charges>>
  /\ UNCHANGED <<filterVars, calcVars, planVars, execVars, quotaVars, auditVars, trailVars,
                 matchVars, chainVars, wizVars>>

\* the automations action (app.automations.jsx lines 481-532)
RuleAction(shop) ==
  /\ dOps < MaxDbOps
  /\ \E intent \in {"create_rule", "toggle_rule", "delete_rule"} :
     \E rule \in dbRules \cup {RuleRow(0, shop, TRUE)} :
       /\ dReq' = Request(shop, intent)
       /\ IF ~PlusGate(shop) THEN UNCHANGED dbRules
          ELSE CASE intent = "create_rule" ->
                      /\ rule.id = 0
                      /\ dbRules' = dbRules \cup {RuleRow(NextId, shop, TRUE)}
                 [] intent = "toggle_rule" ->
                      /\ rule.id # 0
                      /\ dbRules' = IF rule.shop = shop
                                    THEN (dbRules \ {rule})
                                         \cup {[rule EXCEPT !.enabled = ~rule.enabled]}
                                    ELSE dbRules
                 [] intent = "delete_rule" ->
                      /\ rule.id # 0
                      /\ dbRules' = IF rule.shop = shop THEN dbRules \ {rule} ELSE dbRules
  /\ dOps' = dOps + 1
  /\ UNCHANGED <<dbShopPlan, dbScheduled, dbSaved, hookWrites, sNow, gResp, charges>>
  /\ UNCHANGED <<filterVars, calcVars, planVars, execVars, quotaVars, auditVars, trailVars,
                 matchVars, chainVars, wizVars>>

\* the scheduled-edits action (app.scheduled.jsx lines 25-79)
ScheduledAction(shop) ==
  /\ dOps < MaxDbOps
  /\ \E intent \in {"create_scheduled", "cancel_scheduled", "delete_scheduled"} :
     \E edit \in dbScheduled \cup {ScheduledRow(0, shop, 1)} :
       /\ dReq' = Request(shop, intent)
       /\ IF ~PlusGate(shop) THEN UNCHANGED dbScheduled
          ELSE CASE intent = "create_scheduled" ->
                      /\ edit.id = 0
                      /\ \E when \in 1..MaxTime :
                           dbScheduled' = dbScheduled \cup {ScheduledRow(NextId, shop, when)}
                 [] intent = "cancel_scheduled" ->
                      /\ edit.id # 0
                      /\ dbScheduled' = IF edit.shop = shop
                                        THEN (dbScheduled \ {edit})
                                             \cup {[edit EXCEPT !.status = "cancelled"]}
                                        ELSE dbScheduled
                 [] intent = "delete_scheduled" ->
                      /\ edit.id # 0
                      /\ dbScheduled' = IF edit.shop = shop THEN dbScheduled \ {edit}
                                        ELSE dbScheduled
  /\ dOps' = dOps + 1
  /\ UNCHANGED <<dbShopPlan, dbRules, dbSaved, hookWrites, sNow, gResp, charges>>
  /\ UNCHANGED <<filterVars, calcVars, planVars, execVars, quotaVars, auditVars, trailVars,
                 matchVars, chainVars, wizVars>>

PlusInit ==
  /\ dbShopPlan \in [Shops -> {NoRow, PlanRow("free"), PlanRow("pro"), PlanRow("plus")}]
  /\ dbRules \in {{}, {RuleRow(10, "s1", TRUE), RuleRow(11, "s2", TRUE)}}
  /\ dbScheduled \in {{}, {ScheduledRow(10, "s1", 1), ScheduledRow(11, "s2", 1)}}
  /\ dbSaved = {}
  /\ hookWrites = [s \in Shops |-> 0]
  /\ sNow = 0
  /\ gResp = 0
  /\ charges = {}
  /\ dReq = Request("s1", "none")
  /\ dOps = 0

PlusNext == \E shop \in Shops : Webhook(shop) \/ RuleAction(shop) \/ ScheduledAction(shop)

---------------------------------------------------------------------------
(* Billing: the requests that write the plan of a ShopPlan row *)

PlanParams == {"free", "pro", "plus", "gold"}

\* prisma.shopPlan.upsert: the row's plan is set, a missing row is created
UpsertPlan(row, plan, trialUsed) ==
  IF row = NoRow THEN [plan |-> plan, trialUsed |-> trialUsed]
  ELSE [row EXCEPT !.plan = plan]
UpsertTrialUsed(row) ==
  IF row = NoRow THEN [plan |-> "free", trialUsed |-> TRUE]
  ELSE [row EXCEPT !.trialUsed = TRUE]

Charge(shop, plan, approved) == [shop |-> shop, plan |-> plan, approved |-> approved]

\* intent test-switch (part_003 lines 115-126)
TestSwitch(shop) ==
  /\ dOps < MaxDbOps
  /\ \E planKey \in PlanParams :
       /\ dReq' = [shop |-> shop, intent |-> "test-switch", arg |-> planKey, ok |-> FALSE]
       /\ dbShopPlan' =
            IF planKey \notin {"free", "pro", "plus"} THEN dbShopPlan
            ELSE [dbShopPlan EXCEPT ![shop] = UpsertPlan(@, planKey, FALSE)]
  /\ dOps' = dOps + 1
  /\ UNCHANGED <<dbRules, dbScheduled, dbSaved, hookWrites, sNow, gResp, charges>>
  /\ UNCHANGED <<filterVars, calcVars, planVars, execVars, quotaVars, auditVars, trailVars,
                 matchVars, chainVars, wizVars>>

\* intent subscribe (part_003 lines 138-177): billing.request answers with a
\* confirmation URL, with none, or throws
Subscribe(shop) ==
  /\ dOps < MaxDbOps
  /\ \E planKey \in {"pro", "plus"} : \E answer \in {"url", "none", "throw"} :
       /\ dReq' = [shop |-> shop, intent |-> "subscribe", arg |-> planKey,
                   ok |-> answer = "none"]
       /\ CASE answer = "throw" -> UNCHANGED <<dbShopPlan, charges>>
            [] answer = "url" ->
                 /\ dbShopPlan' = [dbShopPlan EXCEPT ![shop] = UpsertTrialUsed(@)]
                 /\ charges' = charges \cup {Charge(shop, planKey, FALSE)}
            [] answer = "none" ->
                 /\ dbShopPlan' =
                      [dbShopPlan EXCEPT ![shop] = UpsertPlan(UpsertTrialUsed(@), planKey, FALSE)]
                 /\ UNCHANGED charges
  /\ dOps' = dOps + 1
  /\ UNCHANGED <<dbRules, dbScheduled, dbSaved, hookWrites, sNow, gResp>>
  /\ UNCHANGED <<filterVars, calcVars, planVars, execVars, quotaVars, auditVars, trailVars,
                 matchVars, chainVars, wizVars>>

\* the merchant approves a charge on the confirmation page
Approve ==
  /\ \E c \in charges :
       /\ ~c.approved
       /\ charges' = (charges \ {c}) \cup {[c EXCEPT !.approved = TRUE]}
  /\ UNCHANGED <<dbShopPlan, dbRules, dbScheduled, dbSaved, hookWrites, sNow, gResp, dReq,
                 dOps>>
  /\ UNCHANGED <<filterVars, calcVars, planVars, execVars, quotaVars, auditVars, trailVars,
                 matchVars, chainVars, wizVars>>

\* the billing callback's loader (app.billing-callback.jsx lines 6-30), hit
\* with any plan parameter; ok tells whether an approved charge stands behind it
BillingCallback(shop) ==
  /\ dOps < MaxDbOps
  /\ \E plan \in PlanParams :
       /\ dReq' = [shop |-> shop, intent |-> "billing-callback", arg |-> plan,
                   ok |-> Charge(shop, plan, TRUE) \in charges]
       /\ dbShopPlan' = [dbShopPlan EXCEPT ![shop] = UpsertPlan(@, plan, TRUE)]
  /\ dOps' = dOps + 1
  /\ UNCHANGED <<dbRules, dbScheduled, dbSaved, hookWrites, sNow, gResp, charges>>
  /\ UNCHANGED <<filterVars, calcVars, planVars, execVars, quotaVars, auditVars, trailVars,
                 matchVars, chainVars, wizVars>>

\* intent cancel (part_003 lines 180-193)
CancelPlan(shop) ==
  /\ dOps < MaxDbOps
  /\ dReq' = [shop |-> shop, intent |-> "cancel", arg |-> "", ok |-> FALSE]
  /\ dbShopPlan' = [dbShopPlan EXCEPT ![shop] = UpsertPlan(@, "free", FALSE)]
  /\ dOps' = dOps + 1
  /\ UNCHANGED <<dbRules, dbScheduled, dbSaved, hookWrites, sNow, gResp, charges>>
  /\ UNCHANGED <<filterVars, calcVars, planVars, execVars, quotaVars, auditVars, trailVars,
                 matchVars, chainVars, wizVars>>

BillingInit ==
  /\ dbShopPlan \in [Shops -> {NoRow, PlanRow("free")}]
  /\ dbRules = {}
  /\ dbScheduled = {}
  /\ dbSaved = {}
  /\ hookWrites = [s \in Shops |-> 0]
  /\ sNow = 0
  /\ gResp = 0
  /\ charges = {}
  /\ dReq = Request("s1", "none")
  /\ dOps = 0

BillingNext ==
  \/ Approve
  \/ \E shop \in Shops :
       TestSwitch(shop) \/ Subscribe(shop) \/ BillingCallback(shop) \/ CancelPlan(shop)

\* C18: the stored plan of a shop becomes pro or plus only through a
\* subscribe request for that plan that the merchant approved (the callback
\* of an approved charge, or a subscription approved at once); test-switch
\* and a callback request without an approved charge leave it alone; and the
\* stored plan is always one of free, pro, plus.
C18_PlanOnlyByApprovedCharge ==
  [][\A s \in Shops :
       /\ (dbShopPlan'[s].plan \in {"pro", "plus"} /\ dbShopPlan'[s].plan # dbShopPlan[s].plan)
            => /\ dReq'.shop = s
               /\ dReq'.intent \in {"billing-callback", "subscribe"}
               /\ dReq'.ok
               /\ dReq'.arg = dbShopPlan'[s].plan
       /\ dbShopPlan'[s] # NoRow => dbShopPlan'[s].plan \in {"free", "pro", "plus"}]_vars

\* a callback request with plan=plus and no charge has made the shop plus
C18_DirectCallback ==
  /\ dReq.intent = "billing-callback"
  /\ ~dReq.ok
  /\ charges = {}
  /\ dbShopPlan[dReq.shop].plan = "plus"

---------------------------------------------------------------------------
(* The compliance webhooks *)

MaxWebhooks == 2

ComplianceTopics == {"CUSTOMERS_DATA_REQUEST", "CUSTOMERS_REDACT", "SHOP_REDACT"}
Topics == ComplianceTopics \cup {"APP_UNINSTALLED"}

\* the six tables that SHOP_REDACT clears
GdprTables == {"shopPlan", "bulkEdit", "priceHistory", "automationRule", "scheduledEdit",
               "savedSearch"}

\* a row of BulkEdit, PriceHistory or SavedSearch, as far as the cleanup reads it
ShopRow(id, shop) == [id |-> id, shop |-> shop]

\* deleteMany({ where: { shop } })
DeleteManyAll(table, shop) == {}
DeleteMany(table, shop) == {r \in table : r.shop # shop}
DeleteManySeqAll(table, shop) == <<>>
DeleteManySeq(table, shop) == SelectSeq(table, LAMBDA r : r.shop # shop)

\* the status of the Response the handler returns for an authenticated webhook
GdprStatus(topic) == IF topic \in ComplianceTopics THEN 200 ELSE 404

\* action (webhooks.gdpr.jsx lines 16-74): authenticate.webhook throws a 401
\* Response for a request that is not Shopify's; of the six deletions of
\* Promise.all those in done are carried out, and the cleanup succeeds when
\* all of them are
Gdpr(topic, shop) ==
  /\ dOps < MaxWebhooks
  /\ \E authentic \in BOOLEAN : \E done \in SUBSET GdprTables :
       LET redact == authentic /\ topic = "SHOP_REDACT"
           del(t) == redact /\ t \in done
       IN /\ ~redact => done = GdprTables
          /\ dReq' = [shop |-> shop, intent |-> topic,
                      arg |-> IF done = GdprTables THEN "cleaned" ELSE "failed",
                      ok |-> authentic]
          /\ gResp' = IF authentic THEN GdprStatus(topic) ELSE 401
          /\ dbShopPlan' = IF del("shopPlan") THEN [dbShopPlan EXCEPT ![shop] = NoRow]
                           ELSE dbShopPlan
          /\ dbBulkEdit' = IF del("bulkEdit") THEN DeleteManySeq(dbBulkEdit, shop)
                           ELSE dbBulkEdit
          /\ dbPriceHistory' = IF del("priceHistory") THEN DeleteManySeq(dbPriceHistory, shop)
                               ELSE dbPriceHistory
          /\ dbRules' = IF del("automationRule") THEN DeleteMany(dbRules, shop) ELSE dbRules
          /\ dbScheduled' = IF del("scheduledEdit") THEN DeleteMany(dbScheduled, shop)
                            ELSE dbScheduled
          /\ dbSaved' = IF del("savedSearch") THEN DeleteMany(dbSaved, shop) ELSE dbSaved
  /\ dOps' = dOps + 1
  /\ UNCHANGED <<hookWrites, sNow, charges>>
  /\ UNCHANGED <<filterVars, calcVars, planVars, execVars, quotaVars, trailVars, matchVars,
                 chainVars, wizVars>>

GdprInit ==
  /\ dbShopPlan \in [Shops -> {NoRow, PlanRow("plus")}]
  /\ dbRules = {RuleRow(1, "s1", TRUE), RuleRow(2, "s2", TRUE)}
  /\ dbScheduled = {ScheduledRow(3, "s1", 1), ScheduledRow(4, "s2", 1)}
  /\ dbSaved \in SUBSET {ShopRow(5, "s1"), ShopRow(6, "s2")}
  /\ dbPriceHistory = <<ShopRow(7, "s1"), ShopRow(8, "s2"), ShopRow(9, "s1")>>
  /\ dbBulkEdit = <<ShopRow(10, "s2"), ShopRow(11, "s1")>>
  /\ hookWrites = [s \in Shops |-> 0]
  /\ sNow = 0
  /\ gResp = 0
  /\ charges = {}
  /\ dReq = Request("s1", "none")
  /\ dOps = 0

GdprNext == \E topic \in Topics : \E shop \in Shops : Gdpr(topic, shop)

\* the rows of a shop in the six tables
ShopData(shop) ==
  <<dbShopPlan[shop], SelectSeq(dbBulkEdit, LAMBDA r : r.shop = shop),
    SelectSeq(dbPriceHistory, LAMBDA r : r.shop = shop), RowsOf(dbRules, shop),
    RowsOf(dbScheduled, shop), RowsOf(dbSaved, shop)>>
NoShopData == <<NoRow, <<>>, <<>>, {}, {}, {}>>

\* C19: after an authenticated SHOP_REDACT webhook for a shop whose cleanup
\* succeeds no row of that shop remains in the six tables and the rows of
\* every other shop are as before; the answer is 200 for the three
\* compliance topics, also when the cleanup fails, and 404 for another topic.
C19_ShopRedact ==
  [][(dOps' = dOps + 1 /\ dReq'.ok) =>
       /\ (dReq'.intent = "SHOP_REDACT" /\ dReq'.arg = "cleaned") =>
            \A s \in Shops : IF s = dReq'.shop THEN ShopData(s)' = NoShopData
                             ELSE ShopData(s)' = ShopData(s)
       /\ dReq'.intent \in ComplianceTopics => gResp' = 200
       /\ dReq'.intent \notin ComplianceTopics => gResp' = 404]_vars

\* the first webhook was a successful SHOP_REDACT: its shop has no row left
\* while the other shop still has a row in each of the six tables
C19_OneShopRedacted ==
  /\ dOps = 1
  /\ dReq.ok /\ dReq.intent = "SHOP_REDACT" /\ dReq.arg = "cleaned"
  /\ gResp = 200
  /\ ShopData(dReq.shop) = NoShopData
  /\ \A other \in Shops \ {dReq.shop} :
       \A i \in 1..6 : ShopData(other)[i] # NoShopData[i]

---------------------------------------------------------------------------
(* Scheduled edits over time *)

\* the clock that scheduledFor is compared with moves on
TimePasses ==
  /\ sNow < MaxTime
  /\ sNow' = sNow + 1
  /\ UNCHANGED <<dbShopPlan, dbRules, dbScheduled, dbSaved, hookWrites, gResp, charges, dReq,
                 dOps>>
  /\ UNCHANGED <<filterVars, calcVars, planVars, execVars, quotaVars, auditVars, trailVars,
                 matchVars, chainVars, wizVars>>

SchedInit ==
  /\ dbShopPlan \in [Shops -> {PlanRow("free"), PlanRow("plus")}]
  /\ dbRules = {}
  /\ dbScheduled = {}
  /\ dbSaved = {}
  /\ hookWrites = [s \in Shops |-> 0]
  /\ sNow = 0
  /\ gResp = 0
  /\ charges = {}
  /\ dReq = Request("s1", "none")
  /\ dOps = 0

\* the scheduled page's action is the only code that writes ScheduledEdit rows
SchedNext == TimePasses \/ \E shop \in Shops : ScheduledAction(shop)

EditIds == 1..MaxDbOps
Due(id) ==
  \E e \in dbScheduled : e.id = id /\ e.status = "pending" /\ sNow >= e.scheduledFor
Executed(id) ==
  \E e \in dbScheduled : e.id = id /\ e.status = "completed" /\ e.executedAt # 0
Withdrawn(id) ==
  \A e \in dbScheduled : e.id = id => e.status = "cancelled"

\* C20: a pending scheduled edit whose scheduledFor time has passed is
\* eventually executed (status completed, executedAt set), unless it is
\* cancelled or deleted.
C20_DueIsExecuted == \A id \in EditIds : Due(id) ~> (Executed(id) \/ Withdrawn(id))

\* a pending edit is past its scheduledFor time
C20_PendingPastDue == \E id \in EditIds : Due(id) /\ sNow = MaxTime

---------------------------------------------------------------------------
(* The report of revert *)

\* what the failed requests of a log add to errorCount under the accounting of
\* execute: a request answered with userErrors its own changes, a request
\* that threw all changes of its product
RECURSIVE FailuresOwed(_)
FailuresOwed(log) ==
  IF log = <<>> THEN 0
  ELSE FailuresOwed(Tail(log))
       + (CASE Head(log).outcome = "userErrors" -> Head(log).n
            [] Head(log).outcome = "throw" -> NChanges(Head(log).productId)
            [] OTHER -> 0)

\* the changes of the accepted requests of a log
RECURSIVE AcceptedOwed(_)
AcceptedOwed(log) ==
  IF log = <<>> THEN 0
  ELSE AcceptedOwed(Tail(log)) + (IF Head(log).outcome = "ok" THEN Head(log).n ELSE 0)

\* C21: in the report of revert, the changes of a request answered with
\* userErrors and the changes of a product whose request threw are in
\* errorCount, only the changes of accepted requests are in successCount, and
\* every product of the changeset has had a request issued.
C21_RevertAccounting ==
  xPhase = "reverted" =>
    /\ xRev.errorCount = FailuresOwed(xRev.log)
    /\ xRev.successCount = AcceptedOwed(xRev.log)
    /\ \A pid \in ChangedProducts : \E k \in 1..Len(xRev.log) : xRev.log[k].productId = pid

\* a revert in which the catalog answered a request with userErrors
C21_RevertUserErrors ==
  /\ xPhase = "reverted"
  /\ \E k \in 1..Len(xRev.log) : xRev.log[k].outcome = "userErrors"
  /\ xRev.errorCount = 0

---------------------------------------------------------------------------
(* Numeric filter operators on values that do not parse *)

NumericFilterFields == {"price", "compareAtPrice", "inventoryQuantity", "weight"}
RelationalOperators ==
  {"greater_than", "less_than", "greater_or_equal", "less_or_equal", "between"}
NumericOperators == RelationalOperators \cup {"equals", "not_equals"}

NotANumber(s) == ParseFloat(s).t # "num"

\* the values the webhook's evaluator compares the rule with
HookFilterValues(product, rule) ==
  IF rule.field \in HookVariantFields
  THEN {HookVariantValue(product.variants[i], rule.field) : i \in 1..Len(product.variants)}
  ELSE {IF rule.field = "tags" THEN Join(product.tags, CommaSpace)
        ELSE BulkProductField(product, rule.field)}

\* the evaluation compared a value that does not parse, or the rule's value
\* does not parse
BulkUnparsed ==
  /\ "bulk" \in fDone
  /\ fRule.field \in NumericFilterFields /\ fRule.operator \in NumericOperators
  /\ NotANumber(BulkFilterValue(fProduct, fRule)) \/ NotANumber(OrEmpty(fRule.value))
HookUnparsed ==
  /\ "hook" \in fDone
  /\ fRule.field \in NumericFilterFields /\ fRule.operator \in NumericOperators
  /\ \/ NotANumber(OrEmpty(fRule.value))
     \/ \A s \in HookFilterValues(HookProduct(fProduct), fRule) : NotANumber(s)

UnparsedResult(values, rule, result) ==
  /\ rule.operator \in RelationalOperators => ~result
  /\ (rule.operator = "equals" /\ rule.field \in NumericEqFields) => ~result
  /\ (rule.operator = "not_equals" /\ rule.field \in NumericEqFields) => result
  /\ (rule.operator = "equals" /\ rule.field \notin NumericEqFields) =>
       (result <=> \E s \in values : ToLower(s) = ToLower(OrEmpty(rule.value)))
  /\ (rule.operator = "not_equals" /\ rule.field \notin NumericEqFields) =>
       (result <=> \E s \in values : ToLower(s) # ToLower(OrEmpty(rule.value)))

---------------------------------------------------------------------------
(* One change per product, variant and field *)

ChangeKey(c) == <<c.productId, c.variantId, c.field>>
Deduplicated(chs) ==
  \A i, j \in 1..Len(chs) : i # j => ChangeKey(chs[i]) # ChangeKey(chs[j])

\* C23: every list the planner produces (the review list, the list
\* confirmExecute builds, the list it submits) holds at most one change for
\* each (productId, variantId, field), whatever the list of modifications.
C23_Deduplicated ==
  /\ Deduplicated(changes)
  /\ Deduplicated(built)
  /\ Deduplicated(lastChanges)

\* two modifications of the price have been submitted as two changes of the
\* price of one variant
C23_TwoPriceChanges ==
  /\ Len(mods) = 2 /\ mods[1].field = "price" /\ mods[2].field = "price"
  /\ \E i, j \in 1..Len(lastChanges) :
       i < j /\ ChangeKey(lastChanges[i]) = ChangeKey(lastChanges[j])

\* the lists are deduplicated when the modifications are on distinct fields
DeduplicatedOnDistinctFields ==
  (\A i, j \in 1..Len(mods) : i # j => mods[i].field # mods[j].field) => C23_Deduplicated

---------------------------------------------------------------------------
(* The requests of one execute invocation *)

LogIndexes(pid, kind) ==
  {k \in 1..Len(xRun.log) : xRun.log[k].productId = pid /\ xRun.log[k].kind = kind}
FirstChange(pid) ==
  CHOOSE i \in 1..Len(xChanges) :
    /\ xChanges[i].productId = pid
    /\ \A j \in 1..(i - 1) : xChanges[j].productId # pid

\* the fields of the changes of a product at a level of the field
\* definitions, and those of one of its variants
LevelFields(pid, level) ==
  {xChanges[i].field : i \in {j \in 1..Len(xChanges) :
      xChanges[j].productId = pid /\ FieldLevel(xChanges[j].field) = level}}
VariantFields(pid, vid) ==
  {xChanges[i].field : i \in {j \in 1..Len(xChanges) :
      /\ xChanges[j].productId = pid /\ xChanges[j].variantId = vid
      /\ FieldLevel(xChanges[j].field) = "variant"}}
ChangedVariants(pid) ==
  {xChanges[i].variantId : i \in {j \in 1..Len(xChanges) :
      xChanges[j].productId = pid /\ FieldLevel(xChanges[j].field) = "variant"}}

\* C24: one execute invocation issues for each product at most one
\* productUpdate, whose input sets every product-level field changed for the
\* product, and at most one productVariantsBulkUpdate, whose entries are one
\* per changed variant, each setting all changed fields of its variant; the
\* requests of a product are issued together, the products in order of first
\* appearance in the changeset.
C24_BatchGrouping ==
  xPhase \in {"executed", "reverted"} =>
    /\ \A pid \in ChangedProducts :
         LET pcs == ChangesOfProduct(xChanges, pid)
             input == ExecProductInput(ExecProductLevel(pcs))
             entries == ExecVariantEntries(ExecVariantLevel(pcs))
         IN /\ Cardinality(LogIndexes(pid, "product")) <= 1
            /\ Cardinality(LogIndexes(pid, "variants")) <= 1
            /\ LogIndexes(pid, "product") # {} =>
                 DOMAIN input = LevelFields(pid, "product")
            /\ LogIndexes(pid, "variants") # {} =>
                 /\ Len(entries) = Cardinality(ChangedVariants(pid))
                 /\ \A vid \in ChangedVariants(pid) :
                      \E k \in 1..Len(entries) :
                        entries[k].id = vid /\ DOMAIN entries[k].set = VariantFields(pid, vid)
    /\ \A k, l \in 1..Len(xRun.log) :
         (k < l /\ xRun.log[k].productId # xRun.log[l].productId) =>
           FirstChange(xRun.log[k].productId) < FirstChange(xRun.log[l].productId)

\* an execute of product-level and variant-level changes of three products,
\* two variants of one product among them: two requests per product
C24_SixRequests ==
  /\ xPhase = "executed"
  /\ ChangedProducts = {1, 2, 3}
  /\ Len(xRun.log) = 6
  /\ \E pid \in ChangedProducts : Cardinality(ChangedVariants(pid)) = 2

---------------------------------------------------------------------------
(* The products/update events a rule's own mutations cause *)

MaxRuns == 3

\* a products/update event: the payload is the product as the catalog had it
\* when the event was raised, cause tells whose write raised it
UpdateEvent(product, cause) == [payload |-> product, cause |-> cause]

ChainRule(conditions, actions) == [conditions |-> conditions, actions |-> actions]
ChainRules ==
  {ChainRule(<<>>, <<MkMod("price", "decrease_percent", S50, <<>>, "none")>>),
   ChainRule(<<[field |-> "price", operator |-> "greater_than", value |-> S20,
                value2 |-> <<>>]>>,
             <<MkMod("price", "decrease_percent", S50, <<>>, "none")>>),
   ChainRule(<<>>, <<MkMod("price", "exact", S1000, <<>>, "none")>>),
   ChainRule(<<>>, <<MkMod("title", "set", <<"B">>, <<>>, "none")>>),
   ChainRule(<<>>, <<MkMod("sku", "append", <<"a">>, <<>>, "none")>>),
   ChainRule(<<>>, <<MkMod("tags", "add", <<"x">>, <<>>, "none"),
                     MkMod("price", "increase_fixed", S5, <<>>, "99")>>)}

\* a plus shop with one enabled rule; the merchant has just saved product 1
ChainInit ==
  /\ qCat \in {<<MkProduct(1, vs)>> : vs \in VariantLists}
  /\ qRule \in ChainRules
  /\ qEvents = <<UpdateEvent(qCat[1], "merchant")>>
  /\ qRuns = 0

\* the webhook's action (part_005 lines 4-57) on the oldest event, for one
\* enabled rule: o1 and o2 are the catalog's answers to the two requests of
\* applyModifications; an accepted mutation that changed the product raises a
\* products/update event, one that changed nothing may raise one
HookDelivered ==
  /\ qRuns < MaxRuns
  /\ qEvents # <<>>
  /\ \E o1 \in Outcomes, o2 \in Outcomes : \E echo \in BOOLEAN :
     \E product \in {HookProduct(Head(qEvents).payload)} :
     \E input \in {HookProductInput(product, qRule.actions)} :
     \E updates \in {HookVariantUpdates(product, qRule.actions)} :
     \E matches \in {\A c \in 1..Len(qRule.conditions) :
                        HookEvaluateFilter(product, qRule.conditions[c])} :
       LET sent1 == matches /\ DOMAIN input # {}
           threw1 == sent1 /\ o1 = "throw"
           sent2 == matches /\ updates # <<>> /\ ~threw1
           accepted == (sent1 /\ o1 = "ok") \/ (sent2 /\ o2 = "ok")
       IN \E cat1 \in {IF sent1 /\ o1 = "ok"
                        THEN CatalogProductUpdate(qCat, product.id, input) ELSE qCat} :
          \E cat2 \in {IF sent2 /\ o2 = "ok"
                        THEN CatalogVariantsUpdate(cat1, product.id, updates) ELSE cat1} :
          \E raised \in {accepted /\ (cat2 # qCat \/ echo)} :
            /\ (~sent1 => o1 = "ok") /\ (~sent2 => o2 = "ok")
            /\ (~accepted \/ cat2 # qCat) => echo
            /\ qCat' = cat2
            /\ qEvents' = Tail(qEvents)
                          \o (IF raised THEN <<UpdateEvent(cat2[1], "automation")>> ELSE <<>>)
  /\ qRuns' = qRuns + 1
  /\ UNCHANGED qRule
  /\ UNCHANGED <<filterVars, calcVars, planVars, execVars, quotaVars, auditVars, trailVars,
                 matchVars, dbVars, wizVars>>

ChainNext == HookDelivered

\* C25: the webhook's handling of a products/update event that a rule's own
\* mutation raised changes no field value of the product, so that the chain
\* of mutation, event and rule evaluation ends.
C25_Quiescent ==
  [][(qRuns' = qRuns + 1 /\ Head(qEvents).cause = "automation") => qCat' = qCat]_vars

\* the 50 % decrease has run on a merchant's save of a variant priced 50.00
\* and again on the event of its own mutation (25.00, then 12.50), and a
\* third event is waiting
C25_ThirdEventWaiting ==
  /\ qRuns = 2
  /\ qRule.conditions = <<>> /\ qRule.actions[1].type = "decrease_percent"
  /\ qEvents # <<>> /\ Head(qEvents).cause = "automation"
  /\ Len(qCat[1].variants) = 1
  /\ qCat[1].variants[1].price = <<"1", "2", ".", "5", "0">>

---------------------------------------------------------------------------
(* The changeset shown and the changeset submitted *)

\* C26: the changeset confirmExecute submits has the same changes in the same
\* order as the review list whose length the Apply button and the confirm
\* dialog show.
C26_SubmittedIsReviewed == fetcher = "submitting" => lastChanges = changes

\* a changeset has been submitted for a product with a variant whose
\* compare-at price is blank, under a modification of the compare-at price
C26_BlankCompareAtSubmitted ==
  /\ fetcher = "submitting"
  /\ \E k \in 1..Len(mods) : mods[k].field = "compareAtPrice"
  /\ \E i \in 1..Len(products[1].variants) : products[1].variants[i].compareAtPrice = Null

\* the two lists agree when no variant has a blank compare-at price
SubmittedIsReviewedUnlessBlank ==
  (\A i \in 1..Len(products[1].variants) : Truthy(products[1].variants[i].compareAtPrice))
    => C26_SubmittedIsReviewed

---------------------------------------------------------------------------
(* The report of execute *)

\* C27: in the report of execute every change of the changeset is counted
\* once, as a success or as an error: successCount + errorCount is the
\* number of changes.
C27_ReportAccounting ==
  xPhase \in {"executed", "reverted"} =>
    xRun.successCount + xRun.errorCount = Len(xChanges)

\* the productUpdate of a product was accepted and its
\* productVariantsBulkUpdate threw
C27_ThrewAfterAccepted ==
  /\ xPhase = "executed"
  /\ \E k \in 1..(Len(xRun.log) - 1) :
       /\ xRun.log[k].kind = "product" /\ xRun.log[k].outcome = "ok"
       /\ xRun.log[k + 1].productId = xRun.log[k].productId
       /\ xRun.log[k + 1].kind = "variants" /\ xRun.log[k + 1].outcome = "throw"

\* every change is counted once when no request throws
ReportAccountingUnlessThrown ==
  (\A k \in 1..Len(xRun.log) : xRun.log[k].outcome # "throw") => C27_ReportAccounting

---------------------------------------------------------------------------
(* Undo of one PriceHistory row *)

\* the catalog with one field of one product or variant set to a value
WithField(cat, pid, vid, field, value) ==
  IF FieldLevel(field) = "product"
  THEN CatalogProductUpdate(cat, pid, field :> ProductFieldInput(field, value))
  ELSE CatalogVariantsUpdate(cat, pid,
         <<[id |-> vid, set |-> field :> (IF field = "weight" THEN ParseFloat(value)
                                           ELSE value)]>>)

\* C28: a revert_single the catalog accepted, on a row written by execute,
\* sets the field named by the row's changeType back to the row's old value
\* and changes no other field.
C28_UndoRestoresField ==
  [][(Len(aLog') = Len(aLog) + 1 /\ aLog'[Len(aLog')].source = "manual_revert") =>
       LET e == aLog'[Len(aLog')]
       IN aCat' = WithField(aCat, e.productId, e.variantId, e.field, e.new)]_vars

\* the row of a compare-at price change has been undone
C28_CompareAtUndone ==
  /\ aLog # <<>>
  /\ aLog[Len(aLog)].source = "manual_revert"
  /\ aLog[Len(aLog)].field = "compareAtPrice"

---------------------------------------------------------------------------
(* The rows of one shop under the requests of another *)

\* the settings page's action (part_002 lines 46-63)
SettingsAction(shop) ==
  /\ dOps < MaxDbOps
  /\ \E intent \in {"clear_history", "clear_edits", "other"} :
       /\ dReq' = Request(shop, intent)
       /\ dbPriceHistory' = IF intent = "clear_history"
                            THEN DeleteManySeq(dbPriceHistory, shop) ELSE dbPriceHistory
       /\ dbBulkEdit' = IF intent = "clear_edits"
                        THEN DeleteManySeq(dbBulkEdit, shop) ELSE dbBulkEdit
  /\ dOps' = dOps + 1
  /\ UNCHANGED <<dbShopPlan, dbRules, dbScheduled, dbSaved, hookWrites, sNow, gResp, charges>>
  /\ UNCHANGED <<filterVars, calcVars, planVars, execVars, quotaVars, trailVars, matchVars,
                 chainVars, wizVars>>

\* both shops have rows in every table
TenantInit ==
  /\ dbShopPlan \in [Shops -> {PlanRow("free"), PlanRow("plus")}]
  /\ dbRules = {RuleRow(1, "s1", TRUE), RuleRow(2, "s2", TRUE)}
  /\ dbScheduled = {ScheduledRow(3, "s1", 1), ScheduledRow(4, "s2", 1)}
  /\ dbSaved = {ShopRow(5, "s1"), ShopRow(6, "s2")}
  /\ dbPriceHistory = <<ShopRow(7, "s1"), ShopRow(8, "s2"), ShopRow(9, "s1")>>
  /\ dbBulkEdit = <<ShopRow(10, "s2"), ShopRow(11, "s1")>>
  /\ hookWrites = [s \in Shops |-> 0]
  /\ sNow = 0
  /\ gResp = 0
  /\ charges = {}
  /\ dReq = Request("s1", "none")
  /\ dOps = 0

TenantNext ==
  \E shop \in Shops :
    \/ Webhook(shop)
    \/ RuleAction(shop)
    \/ ScheduledAction(shop)
    \/ SettingsAction(shop)

---------------------------------------------------------------------------
(* The wizard's selection: filter rules, selected ids, steps *)

MaxFilterRules == 1
MaxWizMods == 1

\* the products the loader handed to the page
WizProducts == <<MkProduct(1, <<VariantA>>), MkProduct(2, <<VariantB>>)>>

TextOperators ==
  <<"contains", "not_contains", "equals", "not_equals", "starts_with", "ends_with",
    "is_empty", "is_not_empty">>
NumberOperators ==
  <<"equals", "not_equals", "greater_than", "less_than", "greater_or_equal",
    "less_or_equal", "between">>
getOperatorsForField(field) ==
  IF field \in {"price", "compareAtPrice", "inventoryQuantity", "weight"}
  THEN NumberOperators ELSE TextOperators

\* what the merchant picks in a filter rule's three controls
WizFields == {"title", "price"}
WizOperators == {"contains", "is_empty", "equals", "greater_than", "less_than"}
WizValues == {<<>>, S20, <<"a">>}

\* the useMemo values filtered and selected (part_004 lines 660-669)
Filtered(rules) == SelectSeq(WizProducts, LAMBDA p : FilteredKeeps(p, rules))
Selected(rules, ids) == SelectSeq(Filtered(rules), LAMBDA p : p.id \in ids)
FilteredIds(rules) == {Filtered(rules)[i].id : i \in 1..Len(Filtered(rules))}

canConfigure == Cardinality(wSelected) > 0
canPreview == canConfigure /\ Len(wMods) > 0 /\ \A i \in 1..Len(wMods) : Truthy(wMods[i])

WizOther ==
  UNCHANGED <<filterVars, calcVars, planVars, execVars, quotaVars, auditVars, trailVars,
              matchVars, dbVars, chainVars>>

addFilterRule ==
  /\ wStep = 1
  /\ Len(wRules) < MaxFilterRules
  /\ wRules' = Append(wRules, MkRule("title", "contains", <<>>))
  /\ UNCHANGED <<wStep, wSelected, wMods>>
  /\ WizOther

updateFilterRule ==
  /\ wStep = 1
  /\ \E i \in 1..Len(wRules) :
       \/ \E val \in WizFields :
            wRules' = [wRules EXCEPT ![i] =
                         [field |-> val, operator |-> getOperatorsForField(val)[1],
                          value |-> <<>>, value2 |-> <<>>]]
       \/ \E val \in WizOperators :
            /\ \E k \in 1..Len(getOperatorsForField(wRules[i].field)) :
                 getOperatorsForField(wRules[i].field)[k] = val
            /\ wRules' = [wRules EXCEPT ![i] =
                            IF val \in {"is_empty", "is_not_empty"}
                            THEN [@ EXCEPT !.operator = val, !.value = <<>>, !.value2 = <<>>]
                            ELSE [@ EXCEPT !.operator = val]]
       \/ \E val \in WizValues :
            /\ wRules[i].operator \notin {"is_empty", "is_not_empty"}
            /\ wRules' = [wRules EXCEPT ![i].value = val]
  /\ UNCHANGED <<wStep, wSelected, wMods>>
  /\ WizOther

removeFilterRule ==
  /\ wStep = 1
  /\ \E i \in 1..Len(wRules) :
       wRules' = [k \in 1..(Len(wRules) - 1) |-> IF k < i THEN wRules[k] ELSE wRules[k + 1]]
  /\ UNCHANGED <<wStep, wSelected, wMods>>
  /\ WizOther

clearAllFilters ==
  /\ wStep = 1
  /\ wRules # <<>>
  /\ wRules' = <<>>
  /\ UNCHANGED <<wStep, wSelected, wMods>>
  /\ WizOther

\* the checkbox of a row of the filtered list
toggleProduct ==
  /\ wStep = 1
  /\ \E id \in FilteredIds(wRules) :
       wSelected' = IF id \in wSelected THEN wSelected \ {id} ELSE wSelected \cup {id}
  /\ UNCHANGED <<wStep, wRules, wMods>>
  /\ WizOther

toggleAll ==
  /\ wStep = 1
  /\ wSelected' = IF /\ Cardinality(wSelected) = Len(Filtered(wRules))
                     /\ Len(Filtered(wRules)) > 0
                  THEN {} ELSE FilteredIds(wRules)
  /\ UNCHANGED <<wStep, wRules, wMods>>
  /\ WizOther

\* + Add Modification, and typing the value of a modification, in step 2
addMod ==
  /\ wStep = 2
  /\ Len(wMods) < MaxWizMods
  /\ wMods' = Append(wMods, <<>>)
  /\ UNCHANGED <<wStep, wRules, wSelected>>
  /\ WizOther

updateMod ==
  /\ wStep = 2
  /\ \E i \in 1..Len(wMods) : \E val \in {<<>>, S1000} :
       wMods' = [wMods EXCEPT ![i] = val]
  /\ UNCHANGED <<wStep, wRules, wSelected>>
  /\ WizOther

\* the Continue buttons (lines 1158, 1358)
Continue ==
  /\ \/ wStep = 1 /\ canConfigure /\ wStep' = 2
     \/ wStep = 2 /\ canPreview /\ wStep' = 3
  /\ UNCHANGED <<wRules, wSelected, wMods>>
  /\ WizOther

\* the Back buttons and the step indicator (lines 1022, 1177, 1353, 1504)
Back ==
  /\ \E s \in 1..2 : wStep > s /\ wStep' = s
  /\ UNCHANGED <<wRules, wSelected, wMods>>
  /\ WizOther

WizInit ==
  /\ wStep = 1
  /\ wRules = <<>>
  /\ wSelected = {}
  /\ wMods = <<>>

WizNext ==
  \/ addFilterRule \/ updateFilterRule \/ removeFilterRule \/ clearAllFilters
  \/ toggleProduct \/ toggleAll \/ addMod \/ updateMod \/ Continue \/ Back

\* C30: whenever the wizard is in step 2 or 3 the products that will be
\* edited (the filtered products whose id is in selectedIds) are not none
\* and are as many as the displayed count selectedIds.size.
C30_SelectionInvariant ==
  wStep \in {2, 3} =>
    /\ Len(Selected(wRules, wSelected)) > 0
    /\ Len(Selected(wRules, wSelected)) = Cardinality(wSelected)

\* step 2 is open with an id selected whose product the filter rules hide
C30_HiddenProductSelected ==
  /\ wStep = 2
  /\ wSelected # {}
  /\ ~(wSelected \subseteq FilteredIds(wRules))

---------------------------------------------------------------------------
(* The audit tables after execute and revert *)

\* C11: an execute invocation that got past the quota check has written, when
\* it completes, exactly one BulkEdit row; the row's status is completed if
\* and only if errorCount = 0 and partial otherwise, and its stored changes
\* are the first min(50, n) changes of the submitted changeset in their
\* original order, whether they were applied or failed.
C11_OneBulkEditRecord ==
  /\ xPhase = "submitted" => dbBulkEdit = <<>>
  /\ xPhase \in {"executed", "reverted"} =>
       /\ Len(dbBulkEdit) = 1
       /\ (dbBulkEdit[1].status = "completed") <=> (xRun.errorCount = 0)
       /\ dbBulkEdit[1].status \in {"completed", "partial"}
       /\ Len(dbBulkEdit[1].changes) =
            (IF Len(xChanges) < 50 THEN Len(xChanges) ELSE 50)
       /\ \A i \in 1..Len(dbBulkEdit[1].changes) : dbBulkEdit[1].changes[i] = xChanges[i]

\* an execute of more than 50 changes in which one request failed
C11_PartialOver50 ==
  /\ xPhase = "executed"
  /\ Len(xChanges) > 50
  /\ xRun.errorCount > 0
  /\ xRun.successCount > 0
  /\ Len(dbBulkEdit) = 1
  /\ dbBulkEdit[1].status = "partial"
  /\ Len(dbBulkEdit[1].changes) = 50

---------------------------------------------------------------------------
(* Idle values of the parts a specification does not use *)

FilterIdle ==
  /\ fProduct = MkProduct(1, <<VariantA>>)
  /\ fRule = [field |-> "title", operator |-> "contains", value |-> <<>>, value2 |-> <<>>]
  /\ fDone = {}
  /\ fBulk = FALSE
  /\ fHook = FALSE

CalcIdle ==
  /\ cCur = Null
  /\ cMod = MkMod("price", "exact", S5, <<>>, "none")
  /\ cDone = {}
  /\ cBulk = Null
  /\ cHook = Null

PlanIdle ==
  /\ catalog = <<>> /\ products = <<>> /\ mods = <<>> /\ step = 1 /\ changes = <<>>
  /\ built = <<>> /\ lastChanges = <<>> /\ fetcher = "idle" /\ round = 0

ExecIdle ==
  /\ xPre = <<>> /\ xChanges = <<>> /\ xPhase = "idle"
  /\ xRun = NewRun(<<>>) /\ xRev = NewRevert(<<>>) /\ xFaults = 0

QuotaIdle ==
  /\ shopPlan = [plan |-> "free", monthlyEdits |-> 0, monthlyEditReset |-> 0]
  /\ now = 0 /\ reqs = <<>> /\ applied = <<>> /\ catalogWrites = 0
  /\ bulkEdits = 0 /\ priceHistory = 0 /\ rejected = {}

AuditIdle == dbPriceHistory = <<>> /\ dbBulkEdit = <<>>

TrailIdle == aCat = <<>> /\ aLog = <<>> /\ aLast = <<>> /\ aOps = 0

DbIdle ==
  /\ dbShopPlan = [s \in Shops |-> NoRow] /\ dbRules = {} /\ dbScheduled = {}
  /\ dbSaved = {} /\ hookWrites = [s \in Shops |-> 0] /\ sNow = 0 /\ gResp = 0
  /\ charges = {} /\ dReq = Request("s1", "none") /\ dOps = 0

MatchIdle ==
  /\ mProduct = MkProduct(1, <<VariantA>>) /\ mRules = <<>> /\ mDone = {}
  /\ mPass = [filtered |-> FALSE, preview |-> FALSE, webhook |-> FALSE]

ChainIdle == qCat = <<>> /\ qRule = <<>> /\ qEvents = <<>> /\ qRuns = 0

WizIdle == wStep = 0 /\ wRules = <<>> /\ wSelected = {} /\ wMods = <<>>

---------------------------------------------------------------------------
(* Specifications *)

FilterSpecInit == FilterInit /\ CalcIdle /\ PlanIdle /\ ExecIdle /\ QuotaIdle /\ AuditIdle
  /\ TrailIdle /\ MatchIdle /\ DbIdle /\ ChainIdle /\ WizIdle

FilterSpec == FilterSpecInit /\ [][FilterNext]_vars

CalcSpecInit == CalcInit /\ FilterIdle /\ PlanIdle /\ ExecIdle /\ QuotaIdle /\ AuditIdle
  /\ TrailIdle /\ MatchIdle /\ DbIdle /\ ChainIdle /\ WizIdle

CalcSpec == CalcSpecInit /\ [][CalcNext]_vars

ExecSpecInit ==
  /\ ExecInit /\ FilterIdle /\ CalcIdle /\ PlanIdle /\ QuotaIdle /\ TrailIdle
  /\ MatchIdle /\ DbIdle /\ ChainIdle /\ WizIdle

ExecSpec == ExecSpecInit /\ [][ExecNext]_vars

AuditSpecInit ==
  /\ AuditInit /\ FilterIdle /\ CalcIdle /\ PlanIdle /\ ExecIdle /\ QuotaIdle
  /\ MatchIdle /\ DbIdle /\ ChainIdle /\ WizIdle

AuditSpec == AuditSpecInit /\ [][AuditNext]_vars

MatchSpecInit ==
  /\ MatchInit /\ FilterIdle /\ CalcIdle /\ PlanIdle /\ ExecIdle /\ QuotaIdle
  /\ AuditIdle /\ TrailIdle /\ DbIdle /\ ChainIdle /\ WizIdle

MatchSpec == MatchSpecInit /\ [][MatchNext]_vars

PlusSpecInit ==
  /\ PlusInit /\ FilterIdle /\ CalcIdle /\ PlanIdle /\ ExecIdle /\ QuotaIdle
  /\ AuditIdle /\ TrailIdle /\ MatchIdle /\ ChainIdle /\ WizIdle

PlusSpec == PlusSpecInit /\ [][PlusNext]_vars

BillingSpecInit ==
  /\ BillingInit /\ FilterIdle /\ CalcIdle /\ PlanIdle /\ ExecIdle /\ QuotaIdle
  /\ AuditIdle /\ TrailIdle /\ MatchIdle /\ ChainIdle /\ WizIdle

BillingSpec == BillingSpecInit /\ [][BillingNext]_vars

GdprSpecInit ==
  /\ GdprInit /\ FilterIdle /\ CalcIdle /\ PlanIdle /\ ExecIdle /\ QuotaIdle
  /\ TrailIdle /\ MatchIdle /\ ChainIdle /\ WizIdle

GdprSpec == GdprSpecInit /\ [][GdprNext]_vars

TenantSpecInit ==
  /\ TenantInit /\ FilterIdle /\ CalcIdle /\ PlanIdle /\ ExecIdle /\ QuotaIdle
  /\ TrailIdle /\ MatchIdle /\ ChainIdle /\ WizIdle

TenantSpec == TenantSpecInit /\ [][TenantNext]_vars

WizSpecInit ==
  /\ WizInit /\ FilterIdle /\ CalcIdle /\ PlanIdle /\ ExecIdle /\ QuotaIdle
  /\ AuditIdle /\ TrailIdle /\ MatchIdle /\ DbIdle /\ ChainIdle

WizSpec == WizSpecInit /\ [][WizNext]_vars

SchedSpecInit ==
  /\ SchedInit /\ FilterIdle /\ CalcIdle /\ PlanIdle /\ ExecIdle /\ QuotaIdle
  /\ AuditIdle /\ TrailIdle /\ MatchIdle /\ ChainIdle /\ WizIdle

\* time passes whatever the merchants do; nothing obliges a merchant to act
SchedSpec == SchedSpecInit /\ [][SchedNext]_vars /\ WF_vars(TimePasses)

QuotaSpecInit == QuotaInit /\ FilterIdle /\ CalcIdle /\ PlanIdle /\ ExecIdle /\ AuditIdle
  /\ TrailIdle /\ MatchIdle /\ DbIdle /\ ChainIdle /\ WizIdle

QuotaSpec == QuotaSpecInit /\ [][QuotaNext]_vars

PlanSpecInit == PlanInit /\ FilterIdle /\ CalcIdle /\ ExecIdle /\ QuotaIdle /\ AuditIdle
  /\ TrailIdle /\ MatchIdle /\ DbIdle /\ ChainIdle /\ WizIdle

PlanSpec == PlanSpecInit /\ [][PlanNext]_vars

ChainSpecInit ==
  /\ ChainInit /\ FilterIdle /\ CalcIdle /\ PlanIdle /\ ExecIdle /\ QuotaIdle
  /\ AuditIdle /\ TrailIdle /\ MatchIdle /\ DbIdle /\ WizIdle

ChainSpec == ChainSpecInit /\ [][ChainNext]_vars

===========================================================================
